---- MODULE Spec2Model ----
(***************************************************************************)
(* Model of the change-tracking library: the path engine                   *)
(* (ObjectManipulator), the change engine (DocumentChangeParser) and the   *)
(* builder's descriptor factories.                                         *)
(*                                                                         *)
(* JavaScript values are tagged records.  A string is a sequence of        *)
(* one-character strings, so that path parsing, splitting, validation and  *)
(* JSON encoding work on the characters.  A container is held by value:    *)
(* heap maps a reference to the tree below it, an in-place mutation of a   *)
(* nested container is a functional update of the root's tree, and only    *)
(* the identity of roots is tracked (copy versus original).                *)
(*                                                                         *)
(* Every call of the library is one action; op records the call and its    *)
(* arguments, ret its outcome, pre the heap before the call.               *)
(***************************************************************************)
EXTENDS Integers, Sequences, FiniteSets, TLC

VARIABLES heap, op, ret, pre

vars == <<heap, op, ret, pre>>

(***************************************************************************)
(* Bounds of the model.                                                    *)
(***************************************************************************)
\* longest array of an initial object
MaxArrLen == 3
\* largest index written after '@' in a generated path
MaxIndex == 4
\* most negative index written after '@' is -MaxNegIndex
MaxNegIndex == 3
\* most descriptors in the change list of one call
MaxDescs == 2
\* longest path given to isValidPropertyPath, the listed examples apart
MaxPathLen == 5

(***************************************************************************)
(* JavaScript values                                                       *)
(***************************************************************************)
Undefined == [t |-> "undefined"]

Null == [t |-> "null"]

NaN == [t |-> "NaN"]

\* an empty slot of a sparse array
Hole == [t |-> "hole"]

Str(s) == [t |-> "string", v |-> s]

Num(n) == [t |-> "number", v |-> n]

Bool(b) == [t |-> "boolean", v |-> b]

\* a plain object: v maps each own key to its value
Obj(f) == [t |-> "object", v |-> f]

\* an array: v holds the elements, p the own properties that are no index
Arr(s) == [t |-> "array", v |-> s, p |-> <<>>]

EmptyObj == Obj(<<>>)

EmptyArr == Arr(<<>>)

IsNullish(x) == x.t \in {"undefined", "null"}

IsContainer(x) == x.t \in {"object", "array"}

(***************************************************************************)
(* Characters and numbers                                                  *)
(***************************************************************************)
Digits == <<"0", "1", "2", "3", "4", "5", "6", "7", "8", "9">>

IsDigit(c) == \E i \in 1..10 : Digits[i] = c

DigitVal(c) == (CHOOSE i \in 1..10 : Digits[i] = c) - 1

\* /^\d+$/
AllDigits(s) == Len(s) > 0 /\ \A i \in 1..Len(s) : IsDigit(s[i])

RECURSIVE DecValue(_)
DecValue(s) ==
  IF s = <<>> THEN 0
  ELSE 10 * DecValue(SubSeq(s, 1, Len(s) - 1)) + DigitVal(s[Len(s)])

RECURSIVE NatToString(_)
NatToString(n) ==
  IF n < 10 THEN <<Digits[n + 1]>>
  ELSE NatToString(n \div 10) \o <<Digits[(n % 10) + 1]>>

\* String(n) of an integer
IntToString(n) == IF n < 0 THEN <<"-">> \o NatToString(-n) ELSE NatToString(n)

\* a canonical array index: the decimal digits of a number, no leading zero
IsArrayIndex(key) == AllDigits(key) /\ (Len(key) = 1 \/ key[1] # "0")

\* the number of leading digits of s from position i on
RECURSIVE DigitRun(_, _)
DigitRun(s, i) ==
  IF i <= Len(s) /\ IsDigit(s[i]) THEN 1 + DigitRun(s, i + 1) ELSE 0

\* parseInt(s, 10) of a string: an optional sign, then the digits up to the
\* first other character; NaN when there is no digit.  parseInt(undefined) is NaN.
ParseInt(s) ==
  IF s.t # "string" THEN NaN
  ELSE LET str == s.v
           neg == Len(str) > 0 /\ str[1] = "-"
           from == IF Len(str) > 0 /\ str[1] \in {"-", "+"} THEN 2 ELSE 1
           n == DigitRun(str, from)
       IN  IF n = 0 THEN NaN
           ELSE LET m == DecValue(SubSeq(str, from, from + n - 1))
                IN  Num(IF neg THEN -m ELSE m)

\* Number(s) of a string: the empty string is 0, a signed run of digits its
\* value, anything else NaN
ToNumber(str) ==
  IF str = <<>> THEN Num(0)
  ELSE LET neg == str[1] = "-"
           from == IF str[1] \in {"-", "+"} THEN 2 ELSE 1
           body == SubSeq(str, from, Len(str))
       IN  IF AllDigits(body)
           THEN Num(IF neg THEN -DecValue(body) ELSE DecValue(body))
           ELSE NaN

(***************************************************************************)
(* Property access on one value                                            *)
(***************************************************************************)
\* x[key]
GetProp(x, key) ==
  CASE x.t = "object" ->
         IF key \in DOMAIN x.v THEN x.v[key] ELSE Undefined
    [] x.t = "array" ->
         IF IsArrayIndex(key)
         THEN LET i == DecValue(key) + 1
              IN  IF i <= Len(x.v) /\ x.v[i] # Hole THEN x.v[i] ELSE Undefined
         ELSE IF key \in DOMAIN x.p THEN x.p[key] ELSE Undefined
    [] x.t = "string" ->
         IF IsArrayIndex(key) /\ DecValue(key) < Len(x.v)
         THEN Str(<<x.v[DecValue(key) + 1]>>)
         ELSE Undefined
    [] OTHER -> Undefined

Holes(n) == [i \in 1..n |-> Hole]

\* x[key] = value on a container
PutProp(x, key, value) ==
  IF x.t = "object" THEN Obj((key :> value) @@ x.v)
  ELSE IF IsArrayIndex(key)
       THEN LET i == DecValue(key) + 1
            IN  IF i <= Len(x.v)
                THEN [x EXCEPT !.v = [@ EXCEPT ![i] = value]]
                ELSE [x EXCEPT !.v = @ \o Holes(i - Len(@) - 1) \o <<value>>]
       ELSE [x EXCEPT !.p = (key :> value) @@ @]

\* x[key] = value in strict mode: a primitive cannot take a property
SetProp(x, key, value) ==
  IF IsContainer(x)
  THEN [val |-> PutProp(x, key, value), err |-> "none"]
  ELSE [val |-> x, err |-> "TypeError"]

Without(f, key) == [k \in DOMAIN f \ {key} |-> f[k]]

\* delete x[key] in strict mode
DeleteProp(x, key) ==
  CASE x.t = "object" -> [val |-> Obj(Without(x.v, key)), err |-> "none"]
    [] x.t = "array" ->
         IF IsArrayIndex(key)
         THEN LET i == DecValue(key) + 1
              IN  [val |-> IF i <= Len(x.v)
                           THEN [x EXCEPT !.v = [@ EXCEPT ![i] = Hole]]
                           ELSE x,
                   err |-> "none"]
         ELSE [val |-> [x EXCEPT !.p = Without(@, key)], err |-> "none"]
    [] x.t = "string" ->
         [val |-> x,
          err |-> IF IsArrayIndex(key) /\ DecValue(key) < Len(x.v)
                  THEN "TypeError" ELSE "none"]
    [] OTHER -> [val |-> x, err |-> "none"]

\* Array.prototype.splice(start, deleteCount, ...items) on the elements
Splice(elems, start, deleteCount, items) ==
  LET len == Len(elems)
      rel == IF start = NaN THEN 0 ELSE start.v
      from == IF rel < 0
              THEN (IF len + rel > 0 THEN len + rel ELSE 0)
              ELSE (IF rel < len THEN rel ELSE len)
      dc0 == IF deleteCount < 0 THEN 0 ELSE deleteCount
      dc == IF dc0 < len - from THEN dc0 ELSE len - from
  IN  SubSeq(elems, 1, from) \o items \o SubSeq(elems, from + dc + 1, len)

(***************************************************************************)
(* ObjectManipulator                                                       *)
(***************************************************************************)
\* path.indexOf(c, from), as a position from 1; 0 when there is none
RECURSIVE IndexOf(_, _, _)
IndexOf(path, c, from) ==
  IF from > Len(path) THEN 0
  ELSE IF path[from] = c THEN from
  ELSE IndexOf(path, c, from + 1)

\* the loop of parsePath from character i on
RECURSIVE parsePathLoop(_, _, _, _)
parsePathLoop(path, i, result, current) ==
  LET flushed == IF current # <<>> THEN Append(result, current) ELSE result
  IN  IF i > Len(path) THEN flushed
      ELSE IF path[i] = "." THEN parsePathLoop(path, i + 1, flushed, <<>>)
      ELSE IF path[i] = "["
           THEN LET closingIndex == IndexOf(path, "]", i)
                IN  IF closingIndex # 0
                    THEN parsePathLoop(path, closingIndex + 1,
                           Append(flushed, SubSeq(path, i + 1, closingIndex - 1)),
                           <<>>)
                    ELSE parsePathLoop(path, i + 1, flushed, <<>>)
      ELSE IF path[i] # "]"
           THEN parsePathLoop(path, i + 1, result, Append(current, path[i]))
      ELSE parsePathLoop(path, i + 1, result, current)

\* parsePath as it would be if brackets were skipped like any ']'
parsePath_NoBrackets(path) ==
  LET NoBracket(c) == c \notin {"[", "]"}
  IN  parsePathLoop(SelectSeq(path, NoBracket), 1, <<>>, <<>>)

parsePath(path) == parsePathLoop(path, 1, <<>>, <<>>)

\* the property key that an undefined key (keys[-1] of an empty list) becomes
UndefinedKey == <<"u", "n", "d", "e", "f", "i", "n", "e", "d">>

LastKey(keys) == IF keys = <<>> THEN UndefinedKey ELSE keys[Len(keys)]

\* the loop of setPropertyValue as it would be if every container it makes
\* were an object
RECURSIVE SetWalk_AlwaysObject(_, _, _, _)
SetWalk_AlwaysObject(current, keys, i, value) ==
  IF i >= Len(keys) THEN SetProp(current, LastKey(keys), value)
  ELSE LET key == keys[i]
           fresh == EmptyObj
           Linked(sub) == [val |-> PutProp(current, key, sub.val), err |-> sub.err]
           Vivify(made) == IF made.err # "none" THEN made
                           ELSE Linked(SetWalk_AlwaysObject(fresh, keys, i + 1, value))
           Into(child, sub) == [val |-> IF IsContainer(child)
                                        THEN PutProp(current, key, sub.val)
                                        ELSE current,
                                err |-> sub.err]
           Step(child) == IF IsNullish(child)
                          THEN Vivify(SetProp(current, key, fresh))
                          ELSE Into(child, SetWalk_AlwaysObject(child, keys, i + 1, value))
       IN  Step(GetProp(current, key))

\* the loop of setPropertyValue from key i on, and the final assignment
RECURSIVE SetWalk(_, _, _, _)
SetWalk(current, keys, i, value) ==
  IF i >= Len(keys) THEN SetProp(current, LastKey(keys), value)
  ELSE LET key == keys[i]
           fresh == IF AllDigits(keys[i + 1]) THEN EmptyArr ELSE EmptyObj
           Linked(sub) == [val |-> PutProp(current, key, sub.val), err |-> sub.err]
           Vivify(made) == IF made.err # "none" THEN made
                           ELSE Linked(SetWalk(fresh, keys, i + 1, value))
           Into(child, sub) == [val |-> IF IsContainer(child)
                                        THEN PutProp(current, key, sub.val)
                                        ELSE current,
                                err |-> sub.err]
           Step(child) == IF IsNullish(child)
                          THEN Vivify(SetProp(current, key, fresh))
                          ELSE Into(child, SetWalk(child, keys, i + 1, value))
       IN  Step(GetProp(current, key))

setPropertyValue(obj, path, value) ==
  LET Outcome(r) == [obj |-> r.val, err |-> r.err]
  IN  Outcome(SetWalk(obj, parsePath(path), 1, value))

\* the loop of getPropertyValue: done is FALSE when it returned early
RECURSIVE GetWalk(_, _, _)
GetWalk(current, keys, i) ==
  IF i > Len(keys) THEN [done |-> TRUE, value |-> current]
  ELSE IF IsNullish(current) THEN [done |-> FALSE, value |-> current]
  ELSE GetWalk(GetProp(current, keys[i]), keys, i + 1)

getPropertyValue(obj, path, defaultValue) ==
  LET Outcome(w) == IF ~w.done \/ IsNullish(w.value) THEN defaultValue ELSE w.value
  IN  Outcome(GetWalk(obj, parsePath(path), 1))

\* the loop of deleteProperty as it would be if the leaf of an array were
\* unset like the key of an object
RECURSIVE DelWalk_Unset(_, _, _)
DelWalk_Unset(current, keys, i) ==
  IF i >= Len(keys) THEN DeleteProp(current, LastKey(keys))
  ELSE LET key == keys[i]
           Into(child, sub) == [val |-> IF IsContainer(child)
                                        THEN PutProp(current, key, sub.val)
                                        ELSE current,
                                err |-> sub.err]
           Step(child) == IF IsNullish(child) THEN [val |-> current, err |-> "none"]
                          ELSE Into(child, DelWalk_Unset(child, keys, i + 1))
       IN  Step(GetProp(current, key))

\* the loop of deleteProperty from key i on, and the final removal
RECURSIVE DelWalk(_, _, _)
DelWalk(current, keys, i) ==
  IF i >= Len(keys)
  THEN IF current.t = "array"
       THEN [val |-> [current EXCEPT !.v =
                        Splice(@, IF keys = <<>> THEN NaN ELSE ToNumber(LastKey(keys)),
                               1, <<>>)],
             err |-> "none"]
       ELSE DeleteProp(current, LastKey(keys))
  ELSE LET key == keys[i]
           Into(child, sub) == [val |-> IF IsContainer(child)
                                        THEN PutProp(current, key, sub.val)
                                        ELSE current,
                                err |-> sub.err]
           Step(child) == IF IsNullish(child) THEN [val |-> current, err |-> "none"]
                          ELSE Into(child, DelWalk(child, keys, i + 1))
       IN  Step(GetProp(current, key))

deleteProperty(obj, path) ==
  LET Outcome(r) == [obj |-> r.val, err |-> r.err]
  IN  Outcome(DelWalk(obj, parsePath(path), 1))

\* String.prototype.split(sep) for a one-character separator
RECURSIVE SplitLoop(_, _, _, _)
SplitLoop(s, sep, i, current) ==
  IF i > Len(s) THEN <<current>>
  ELSE IF s[i] = sep THEN <<current>> \o SplitLoop(s, sep, i + 1, <<>>)
  ELSE SplitLoop(s, sep, i + 1, Append(current, s[i]))

Split(s, sep) == SplitLoop(s, sep, 1, <<>>)

\* the container stored under keys replaced by value (a mutation through a
\* reference obtained by walking keys)
RECURSIVE StoreAt(_, _, _)
StoreAt(root, keys, value) ==
  IF keys = <<>> THEN value
  ELSE PutProp(root, keys[1], StoreAt(GetProp(root, keys[1]), Tail(keys), value))

\* [arr, index] of the path; own tells whether arr is the value stored in obj
\* under the keys at (a reference into obj) or the default, a new empty array
getArrayAndIndex(obj, path) ==
  LET Pair(keys, indexStr, w) ==
        [arr |-> IF w.done /\ ~IsNullish(w.value) THEN w.value ELSE EmptyArr,
         index |-> ParseInt(indexStr),
         own |-> w.done /\ ~IsNullish(w.value),
         at |-> keys]
      Walk(keys, indexStr) == Pair(keys, indexStr, GetWalk(obj, keys, 1))
      Destructure(parts) ==
        Walk(parsePath(parts[1]),
             IF Len(parts) >= 2 THEN Str(parts[2]) ELSE Undefined)
  IN  Destructure(Split(path, "@"))

\* the same as it would be if the default array were attached to obj
WriteBack_Vivifying(obj, g, newArr) ==
  IF g.own THEN StoreAt(obj, g.at, newArr) ELSE SetWalk(obj, g.at, 1, newArr).val

\* obj after arr, reached through getArrayAndIndex, was changed to newArr
WriteBack(obj, g, newArr) == IF g.own THEN StoreAt(obj, g.at, newArr) ELSE obj

\* insertAtIndex as it would be with strict bounds: an index beyond the
\* length is refused instead of appending
\* insertAtIndex as it would be if it inserted after the element at index
insertAtIndex_After(obj, path, value) ==
  LET Insert(g) ==
        IF g.arr.t # "array" THEN [obj |-> obj, err |-> "TypeError"]
        ELSE [obj |-> WriteBack(obj, g,
                        [g.arr EXCEPT !.v = IF g.index = Num(-1) \/ g.index = NaN
                                            THEN Append(@, value)
                                            ELSE Splice(@, Num(g.index.v + 1), 0,
                                                        <<value>>)]),
              err |-> "none"]
  IN  Insert(getArrayAndIndex(obj, path))

insertAtIndex_Strict(obj, path, value) ==
  LET Insert(g) ==
        IF g.arr.t # "array" THEN [obj |-> obj, err |-> "TypeError"]
        ELSE IF g.index # NaN /\ g.index.v > Len(g.arr.v)
             THEN [obj |-> obj, err |-> "none"]
        ELSE [obj |-> WriteBack(obj, g,
                        [g.arr EXCEPT !.v = IF g.index = Num(-1)
                                            THEN Append(@, value)
                                            ELSE Splice(@, g.index, 0, <<value>>)]),
              err |-> "none"]
  IN  Insert(getArrayAndIndex(obj, path))

insertAtIndex(obj, path, value) ==
  LET Insert(g) ==
        IF g.arr.t # "array" THEN [obj |-> obj, err |-> "TypeError"]
        ELSE [obj |-> WriteBack(obj, g,
                        [g.arr EXCEPT !.v = IF g.index = Num(-1)
                                            THEN Append(@, value)
                                            ELSE Splice(@, g.index, 0, <<value>>)]),
              err |-> "none"]
  IN  Insert(getArrayAndIndex(obj, path))

\* arr.length as far as a comparison with a number needs it: -1 stands for
\* undefined, which no index is below
LengthOf(arr) == IF arr.t \in {"array", "string"} THEN Len(arr.v) ELSE -1

\* removeAtIndex as it would be without the test index >= 0
removeAtIndex_NoLowerBound(obj, path) ==
  LET Remove(g) ==
        IF g.index # NaN /\ g.index.v < LengthOf(g.arr)
        THEN IF g.arr.t # "array" THEN [obj |-> obj, err |-> "TypeError"]
             ELSE [obj |-> WriteBack(obj, g,
                             [g.arr EXCEPT !.v = Splice(@, g.index, 1, <<>>)]),
                   err |-> "none"]
        ELSE [obj |-> obj, err |-> "none"]
  IN  Remove(getArrayAndIndex(obj, path))

removeAtIndex(obj, path) ==
  LET Remove(g) ==
        IF g.index # NaN /\ g.index.v >= 0 /\ g.index.v < LengthOf(g.arr)
        THEN IF g.arr.t # "array" THEN [obj |-> obj, err |-> "TypeError"]
             ELSE [obj |-> WriteBack(obj, g,
                             [g.arr EXCEPT !.v = Splice(@, g.index, 1, <<>>)]),
                   err |-> "none"]
        ELSE [obj |-> obj, err |-> "none"]
  IN  Remove(getArrayAndIndex(obj, path))

\* setValueAtIndex as it would be without the test index >= 0
setValueAtIndex_NoGuard(obj, path, value) ==
  LET Assigned(g, r) == IF r.err # "none" THEN [obj |-> obj, err |-> r.err]
                        ELSE [obj |-> WriteBack(obj, g, r.val), err |-> "none"]
      Set(g) == IF g.index # NaN
                THEN Assigned(g, SetProp(g.arr, IntToString(g.index.v), value))
                ELSE [obj |-> obj, err |-> "none"]
  IN  Set(getArrayAndIndex(obj, path))

setValueAtIndex(obj, path, value) ==
  LET Assigned(g, r) == IF r.err # "none" THEN [obj |-> obj, err |-> r.err]
                        ELSE [obj |-> WriteBack(obj, g, r.val), err |-> "none"]
      Set(g) == IF g.index # NaN /\ g.index.v >= 0
                THEN Assigned(g, SetProp(g.arr, IntToString(g.index.v), value))
                ELSE [obj |-> obj, err |-> "none"]
  IN  Set(getArrayAndIndex(obj, path))

(***************************************************************************)
(* PROPERTY_PATH_REGEX.  Each part of the pattern is the set of positions  *)
(* a match of it can end at, so that backtracking is accounted for; the    *)
(* pattern is anchored at both ends and has no flags.                      *)
(***************************************************************************)
LowerCase ==
  {"a", "b", "c", "d", "e", "f", "g", "h", "i", "j", "k", "l", "m",
   "n", "o", "p", "q", "r", "s", "t", "u", "v", "w", "x", "y", "z"}

UpperCase ==
  {"A", "B", "C", "D", "E", "F", "G", "H", "I", "J", "K", "L", "M",
   "N", "O", "P", "Q", "R", "S", "T", "U", "V", "W", "X", "Y", "Z"}

\* [a-zA-Z_$]
IsIdentStart(c) == c \in LowerCase \cup UpperCase \cup {"_", "$"}

\* [0-9a-zA-Z_$]
IsIdentPart(c) == IsIdentStart(c) \/ IsDigit(c)

CharAt(s, i, c) == i <= Len(s) /\ s[i] = c

\* ([a-zA-Z_$][0-9a-zA-Z_$]*) from position i: the positions after a match
IdentEnds(s, i) ==
  IF i <= Len(s) /\ IsIdentStart(s[i])
  THEN {j \in (i + 1)..(Len(s) + 1) : \A k \in (i + 1)..(j - 1) : IsIdentPart(s[k])}
  ELSE {}

\* (\[\d+\])? from position i
BracketEnds(s, i) ==
  {i} \cup
    (IF CharAt(s, i, "[")
     THEN {j + 1 : j \in {j \in (i + 2)..Len(s) :
                            /\ s[j] = "]"
                            /\ \A k \in (i + 1)..(j - 1) : IsDigit(s[k])}}
     ELSE {})

\* VALID_IDENTIFIER from position i
ValidIdentifierEnds(s, i) == UNION {BracketEnds(s, j) : j \in IdentEnds(s, i)}

\* (\.VALID_IDENTIFIER)* from position i
RECURSIVE DottedEnds(_, _)
DottedEnds(s, i) ==
  {i} \cup
    (IF CharAt(s, i, ".")
     THEN UNION {DottedEnds(s, j) : j \in ValidIdentifierEnds(s, i + 1)}
     ELSE {})

\* (@-?\d+)? from position i
AtEnds(s, i) ==
  {i} \cup
    (IF CharAt(s, i, "@")
     THEN LET from == IF CharAt(s, i + 1, "-") THEN i + 2 ELSE i + 1
          IN  {from + n : n \in 1..DigitRun(s, from)}
     ELSE {})

\* the positions a match of the pattern without its final $ can end at
PathRegexEnds(s) ==
  UNION {AtEnds(s, k) :
           k \in UNION {DottedEnds(s, j) : j \in ValidIdentifierEnds(s, 1)}}

\* the pattern as it would be without the final $
isValidPropertyPath_Unanchored(path) == PathRegexEnds(path) # {}

\* PROPERTY_PATH_REGEX.test(path)
isValidPropertyPath(path) == (Len(path) + 1) \in PathRegexEnds(path)

(***************************************************************************)
(* JSON.stringify and JSON.parse on the characters of the text.  Numbers   *)
(* are integers.  An object keeps no order of its keys here, so stringify  *)
(* writes them in one fixed order; parse does not depend on it.            *)
(***************************************************************************)
Quote == "\""

Backslash == "\\"

\* the characters of a string between the quotes of its JSON text
RECURSIVE EscapeChars(_)
EscapeChars(str) ==
  IF str = <<>> THEN <<>>
  ELSE (CASE str[1] = Quote -> <<Backslash, Quote>>
          [] str[1] = Backslash -> <<Backslash, Backslash>>
          [] str[1] = "\n" -> <<Backslash, "n">>
          [] str[1] = "\t" -> <<Backslash, "t">>
          [] OTHER -> <<str[1]>>)
       \o EscapeChars(Tail(str))

QuoteString(str) == <<Quote>> \o EscapeChars(str) \o <<Quote>>

RECURSIVE SetToSeq(_)
SetToSeq(S) ==
  IF S = {} THEN <<>>
  ELSE LET x == CHOOSE x \in S : TRUE
       IN  <<x>> \o SetToSeq(S \ {x})

RECURSIVE JoinWithCommas(_)
JoinWithCommas(texts) ==
  IF texts = <<>> THEN <<>>
  ELSE IF Len(texts) = 1 THEN texts[1]
  ELSE texts[1] \o <<",">> \o JoinWithCommas(Tail(texts))

\* JSON.stringify(x) of a value that has a JSON text; inside an array a
\* hole, undefined and NaN are written null, inside an object a key whose
\* value is undefined is left out
RECURSIVE JSONstringify(_)
JSONstringify(x) ==
  CASE x.t = "string" -> QuoteString(x.v)
    [] x.t = "number" -> IntToString(x.v)
    [] x.t = "boolean" -> IF x.v THEN <<"t", "r", "u", "e">>
                          ELSE <<"f", "a", "l", "s", "e">>
    [] x.t = "array" ->
         <<"[">> \o JoinWithCommas([i \in 1..Len(x.v) |-> JSONstringify(x.v[i])])
                 \o <<"]">>
    [] x.t = "object" ->
         LET keys == SetToSeq({k \in DOMAIN x.v : x.v[k].t # "undefined"})
         IN  <<"{">> \o JoinWithCommas([i \in 1..Len(keys) |->
                          QuoteString(keys[i]) \o <<":">> \o JSONstringify(x.v[keys[i]])])
                     \o <<"}">>
    [] OTHER -> <<"n", "u", "l", "l">>

\* the first position from i on that holds no white space
RECURSIVE SkipWs(_, _)
SkipWs(s, i) ==
  IF i <= Len(s) /\ s[i] \in {" ", "\n", "\t"} THEN SkipWs(s, i + 1) ELSE i

StartsWith(s, i, word) ==
  /\ i + Len(word) - 1 <= Len(s)
  /\ SubSeq(s, i, i + Len(word) - 1) = word

ParseFail == [ok |-> FALSE]

Parsed(val, next) == [ok |-> TRUE, val |-> val, next |-> next]

\* the characters of a JSON string from position i, after the opening quote
RECURSIVE ParseStringChars(_, _, _)
ParseStringChars(s, i, acc) ==
  IF i > Len(s) \/ s[i] \in {"\n", "\t"} THEN ParseFail
  ELSE IF s[i] = Quote THEN Parsed(acc, i + 1)
  ELSE IF s[i] = Backslash
       THEN IF i + 1 > Len(s) THEN ParseFail
            ELSE CASE s[i + 1] \in {Quote, Backslash, "/"} ->
                        ParseStringChars(s, i + 2, Append(acc, s[i + 1]))
                   [] s[i + 1] = "n" -> ParseStringChars(s, i + 2, Append(acc, "\n"))
                   [] s[i + 1] = "t" -> ParseStringChars(s, i + 2, Append(acc, "\t"))
                   [] OTHER -> ParseFail
  ELSE ParseStringChars(s, i + 1, Append(acc, s[i]))

\* -?(0|[1-9]\d*) from position i
ParseNumber(s, i) ==
  LET neg == CharAt(s, i, "-")
      from == IF neg THEN i + 1 ELSE i
      n == IF CharAt(s, from, "0") THEN 1 ELSE DigitRun(s, from)
  IN  IF n = 0 THEN ParseFail
      ELSE LET m == DecValue(SubSeq(s, from, from + n - 1))
           IN  Parsed(Num(IF neg THEN 0 - m ELSE m), from + n)

RECURSIVE ParseJsonValue(_, _)
RECURSIVE ParseElements(_, _, _)
RECURSIVE ParseMembers(_, _, _)

\* the elements of an array from position i, after '[' or ','
ParseElements(s, i, acc) ==
  LET After(e, j) ==
        IF CharAt(s, j, ",") THEN ParseElements(s, j + 1, Append(acc, e.val))
        ELSE IF CharAt(s, j, "]") THEN Parsed(Arr(Append(acc, e.val)), j + 1)
        ELSE ParseFail
      Element(e) == IF ~e.ok THEN ParseFail ELSE After(e, SkipWs(s, e.next))
  IN  Element(ParseJsonValue(s, i))

\* the members of an object from position i, after '{' or ','
ParseMembers(s, i, acc) ==
  LET After(members, j) ==
        IF CharAt(s, j, ",") THEN ParseMembers(s, j + 1, members)
        ELSE IF CharAt(s, j, "}") THEN Parsed(Obj(members), j + 1)
        ELSE ParseFail
      Member(key, e) ==
        IF ~e.ok THEN ParseFail
        ELSE After((key.val :> e.val) @@ acc, SkipWs(s, e.next))
      Colon(key, c) ==
        Member(key, IF CharAt(s, c, ":") THEN ParseJsonValue(s, c + 1) ELSE ParseFail)
      Key(key) == IF ~key.ok THEN ParseFail ELSE Colon(key, SkipWs(s, key.next))
      Start(k) ==
        Key(IF CharAt(s, k, Quote) THEN ParseStringChars(s, k + 1, <<>>) ELSE ParseFail)
  IN  Start(SkipWs(s, i))

\* one JSON value from position i, white space before it skipped
ParseJsonValue(s, i) ==
  LET String(r) == IF r.ok THEN Parsed(Str(r.val), r.next) ELSE ParseFail
      Array(k) == IF CharAt(s, k, "]") THEN Parsed(EmptyArr, k + 1)
                  ELSE ParseElements(s, k, <<>>)
      Object(k) == IF CharAt(s, k, "}") THEN Parsed(EmptyObj, k + 1)
                   ELSE ParseMembers(s, k, <<>>)
      Value(j) ==
        IF j > Len(s) THEN ParseFail
        ELSE CASE s[j] = Quote -> String(ParseStringChars(s, j + 1, <<>>))
               [] s[j] = "[" -> Array(SkipWs(s, j + 1))
               [] s[j] = "{" -> Object(SkipWs(s, j + 1))
               [] StartsWith(s, j, <<"t", "r", "u", "e">>) -> Parsed(Bool(TRUE), j + 4)
               [] StartsWith(s, j, <<"f", "a", "l", "s", "e">>) -> Parsed(Bool(FALSE), j + 5)
               [] StartsWith(s, j, <<"n", "u", "l", "l">>) -> Parsed(Null, j + 4)
               [] OTHER -> ParseNumber(s, j)
  IN  Value(SkipWs(s, i))

\* JSON.parse(text): err is "SyntaxError" when the text is no JSON text
JSONparse(text) ==
  LET Whole(r) == IF r.ok /\ SkipWs(text, r.next) = Len(text) + 1
                  THEN [val |-> r.val, err |-> "none"]
                  ELSE [val |-> Undefined, err |-> "SyntaxError"]
  IN  Whole(ParseJsonValue(text, 1))

(***************************************************************************)
(* ChangeBuilder: the descriptor factories                                 *)
(***************************************************************************)
\* newValueType of a descriptor that has none
NoType == "undefined"

createDescriptor(type, path, value, valueType) ==
  [type |-> type, propertyPath |-> path, newValue |-> Str(value),
   newValueType |-> valueType]

createStringDescriptor(path, value) ==
  createDescriptor("CREATE", path, value, "string")

updateStringDescriptor(path, value) ==
  createDescriptor("UPDATE", path, value, "string")

\* String(value) of a number
NumberToString(value) == IF value = NaN THEN <<"N", "a", "N">> ELSE IntToString(value.v)

createNumberDescriptor(path, value) ==
  createDescriptor("CREATE", path, NumberToString(value), "number")

updateNumberDescriptor(path, value) ==
  createDescriptor("UPDATE", path, NumberToString(value), "number")

createObjectDescriptor(path, value) ==
  createDescriptor("CREATE", path, JSONstringify(value), "object")

updateObjectDescriptor(path, value) ==
  createDescriptor("UPDATE", path, JSONstringify(value), "object")

deleteDescriptor(path) ==
  [type |-> "DELETE", propertyPath |-> path, newValue |-> Undefined,
   newValueType |-> NoType]

wrapChanges(changes) == [changes |-> changes]

(***************************************************************************)
(* DocumentChangeParser.  Its functions take the heap and the reference of *)
(* the object and give the heap they leave, the error they throw ("none"   *)
(* when they return) with what it carries, and the reference they return.  *)
(***************************************************************************)
Ref(n) == [t |-> "ref", v |-> n]

\* an options object; options left out is Undefined
Options(validatePaths) == [t |-> "options", validatePaths |-> validatePaths]

Truthy(x) ==
  CASE x.t \in {"undefined", "null", "NaN"} -> FALSE
    [] x.t = "boolean" -> x.v
    [] x.t = "number" -> x.v # 0
    [] x.t = "string" -> x.v # <<>>
    [] OTHER -> TRUE

\* structuredClone as it would be if it gave back the object it was given
structuredClone_Alias(h, ref) == [heap |-> h, ref |-> ref]

\* structuredClone(obj): a new object with an equal tree
structuredClone(h, ref) == [heap |-> Append(h, h[ref]), ref |-> Len(h) + 1]

\* parseValue as it would be without the second JSON.parse of a text that
\* decodes to a string
parseValue_SingleParse(value, type) ==
  CASE type = "string" -> [val |-> Str(value), err |-> "none"]
    [] type = "number" -> [val |-> ToNumber(value), err |-> "none"]
    [] type = "object" ->
         LET First(parsed) ==
               IF parsed.err # "none" THEN [val |-> Undefined, err |-> "DecodeFailure"]
               ELSE [val |-> parsed.val, err |-> "none"]
         IN  First(JSONparse(value))
    [] OTHER -> [val |-> Undefined, err |-> "none"]

parseValue(value, type) ==
  CASE type = "string" -> [val |-> Str(value), err |-> "none"]
    [] type = "number" -> [val |-> ToNumber(value), err |-> "none"]
    [] type = "object" ->
         LET Second(again) ==
               IF again.err # "none" THEN [val |-> Undefined, err |-> "DecodeFailure"]
               ELSE [val |-> again.val, err |-> "none"]
             First(parsed) ==
               IF parsed.err # "none" THEN [val |-> Undefined, err |-> "DecodeFailure"]
               ELSE IF parsed.val.t = "string" THEN Second(JSONparse(parsed.val.v))
               ELSE [val |-> parsed.val, err |-> "none"]
         IN  First(JSONparse(value))
    [] OTHER -> [val |-> Undefined, err |-> "none"]

isArrayChange(path) == \E i \in 1..Len(path) : path[i] = "@"

\* applyArrayChange as it would be if UPDATE inserted like CREATE
applyArrayChange_UpdateInserts(obj, path, type, value) ==
  CASE type \in {"CREATE", "UPDATE"} -> insertAtIndex(obj, path, value)
    [] type = "DELETE" -> removeAtIndex(obj, path)
    [] OTHER -> [obj |-> obj, err |-> "none"]

applyArrayChange(obj, path, type, value) ==
  CASE type = "CREATE" -> insertAtIndex(obj, path, value)
    [] type = "UPDATE" -> setValueAtIndex(obj, path, value)
    [] type = "DELETE" -> removeAtIndex(obj, path)
    [] OTHER -> [obj |-> obj, err |-> "none"]

\* applyPropertyChange as it would be if CREATE kept a property that exists
applyPropertyChange_CreateKeeps(obj, path, type, value) ==
  CASE type = "CREATE" ->
         IF getPropertyValue(obj, path, Undefined) = Undefined
         THEN setPropertyValue(obj, path, value)
         ELSE [obj |-> obj, err |-> "none"]
    [] type = "UPDATE" -> setPropertyValue(obj, path, value)
    [] type = "DELETE" -> deleteProperty(obj, path)
    [] OTHER -> [obj |-> obj, err |-> "none"]

applyPropertyChange(obj, path, type, value) ==
  CASE type \in {"CREATE", "UPDATE"} -> setPropertyValue(obj, path, value)
    [] type = "DELETE" -> deleteProperty(obj, path)
    [] OTHER -> [obj |-> obj, err |-> "none"]

Thrown(h, err, detail) == [heap |-> h, err |-> err, detail |-> detail]

\* applyFieldChange as it would be if the value were asked for before the
\* path is validated
applyFieldChange_ValueFirst(h, ref, change, options) ==
  LET propertyPath == change.propertyPath
      type == change.type
      decodes == type \in {"CREATE", "UPDATE"}
      Applied(r) ==
        [heap |-> [h EXCEPT ![ref] = r.obj], err |-> r.err, detail |-> Undefined]
      Dispatch(parsedValue) ==
        IF parsedValue.err # "none"
        THEN Thrown(h, parsedValue.err, change.newValue)
        ELSE Applied(IF isArrayChange(propertyPath)
                     THEN applyArrayChange(h[ref], propertyPath, type, parsedValue.val)
                     ELSE applyPropertyChange(h[ref], propertyPath, type, parsedValue.val))
  IN  IF decodes /\ (change.newValue = Undefined \/ change.newValueType = NoType)
      THEN Thrown(h, "MissingValue", Str(type))
      ELSE IF Truthy(options.validatePaths) /\ ~isValidPropertyPath(propertyPath)
           THEN Thrown(h, "InvalidPathError", Str(propertyPath))
      ELSE Dispatch(IF decodes
                    THEN parseValue(change.newValue.v, change.newValueType)
                    ELSE [val |-> Null, err |-> "none"])

applyFieldChange(h, ref, change, options) ==
  LET propertyPath == change.propertyPath
      type == change.type
      decodes == type \in {"CREATE", "UPDATE"}
      Applied(r) ==
        [heap |-> [h EXCEPT ![ref] = r.obj], err |-> r.err, detail |-> Undefined]
      Dispatch(parsedValue) ==
        IF parsedValue.err # "none"
        THEN Thrown(h, parsedValue.err, change.newValue)
        ELSE Applied(IF isArrayChange(propertyPath)
                     THEN applyArrayChange(h[ref], propertyPath, type, parsedValue.val)
                     ELSE applyPropertyChange(h[ref], propertyPath, type, parsedValue.val))
  IN  IF Truthy(options.validatePaths) /\ ~isValidPropertyPath(propertyPath)
      THEN Thrown(h, "InvalidPathError", Str(propertyPath))
      ELSE IF decodes /\ (change.newValue = Undefined \/ change.newValueType = NoType)
           THEN Thrown(h, "MissingValue", Str(type))
      ELSE Dispatch(IF decodes
                    THEN parseValue(change.newValue.v, change.newValueType)
                    ELSE [val |-> Null, err |-> "none"])

\* the loop of applyChange as it would be with best-effort continuation: the
\* descriptors after a failing one are still applied, then the error is thrown
RECURSIVE ApplyEachChange_BestEffort(_, _, _, _, _)
ApplyEachChange_BestEffort(h, ref, changes, i, options) ==
  IF i > Len(changes) THEN [heap |-> h, err |-> "none", detail |-> Undefined]
  ELSE LET Late(r, rest) == [heap |-> rest.heap, err |-> r.err, detail |-> r.detail]
           Then(r) ==
             IF r.err # "none"
             THEN Late(r, ApplyEachChange_BestEffort(h, ref, changes, i + 1, options))
             ELSE ApplyEachChange_BestEffort(r.heap, ref, changes, i + 1, options)
       IN  Then(applyFieldChange(h, ref, changes[i], options))

\* the loop of applyChange as it would be walking the list from its end
RECURSIVE ApplyEachChange_Reversed(_, _, _, _, _)
ApplyEachChange_Reversed(h, ref, changes, i, options) ==
  IF i > Len(changes) THEN [heap |-> h, err |-> "none", detail |-> Undefined]
  ELSE LET Then(r) ==
             IF r.err # "none" THEN r
             ELSE ApplyEachChange_Reversed(r.heap, ref, changes, i + 1, options)
       IN  Then(applyFieldChange(h, ref, changes[Len(changes) + 1 - i], options))

\* the loop of applyChange from descriptor i on
RECURSIVE ApplyEachChange(_, _, _, _, _)
ApplyEachChange(h, ref, changes, i, options) ==
  IF i > Len(changes) THEN [heap |-> h, err |-> "none", detail |-> Undefined]
  ELSE LET Then(r) == IF r.err # "none" THEN r
                       ELSE ApplyEachChange(r.heap, ref, changes, i + 1, options)
       IN  Then(applyFieldChange(h, ref, changes[i], options))

Returning(r, ref) ==
  [heap |-> r.heap, err |-> r.err, detail |-> r.detail,
   value |-> IF r.err = "none" THEN Ref(ref) ELSE Undefined]

applyChange(h, ref, documentChange, options) ==
  Returning(ApplyEachChange(h, ref, documentChange.changes, 1,
                            IF options = Undefined
                            THEN Options(Bool(TRUE)) ELSE options),
            ref)

\* the loop of applyChanges from document change i on
RECURSIVE ApplyEachDocumentChange(_, _, _, _, _)
ApplyEachDocumentChange(h, ref, documentChanges, i, options) ==
  IF i > Len(documentChanges) THEN [heap |-> h, err |-> "none", detail |-> Undefined]
  ELSE LET Then(r) ==
             IF r.err # "none" THEN r
             ELSE ApplyEachDocumentChange(r.heap, ref, documentChanges, i + 1, options)
       IN  Then(applyChange(h, ref, documentChanges[i], options))

applyChanges(h, ref, documentChanges, options) ==
  Returning(ApplyEachDocumentChange(h, ref, documentChanges, 1, options), ref)

getCopyWithChanges(h, obj, documentChanges, options) ==
  LET OnCopy(copy) == applyChanges(copy.heap, copy.ref, documentChanges, options)
  IN  OnCopy(structuredClone(h, obj))

getCopyWithChange(h, obj, documentChange, options) ==
  LET OnCopy(copy) == applyChange(copy.heap, copy.ref, documentChange, options)
  IN  OnCopy(structuredClone(h, obj))

(***************************************************************************)
(* Calls of the ObjectManipulator.  A behaviour is one call made on an     *)
(* initial object: the library keeps no state between calls, so a later    *)
(* call is a first call on the object the earlier ones left.               *)
(***************************************************************************)
Letters == <<"a", "b", "c", "d", "e", "f", "g", "h">>

\* the elements an initial array holds: "a", "b", "c", ...
Elem(i) == Str(<<Letters[((i - 1) % 8) + 1]>>)

ArrayOfLen(n) == Arr([i \in 1..n |-> Elem(i)])

K_items == <<"i", "t", "e", "m", "s">>

K_user == <<"u", "s", "e", "r">>

K_name == <<"n", "a", "m", "e">>

\* the objects a call of the ObjectManipulator starts from
ManipObjects ==
  {Obj(K_items :> ArrayOfLen(n)) : n \in 0..MaxArrLen}
    \cup {Obj(K_user :> Obj(K_items :> ArrayOfLen(n))) : n \in 0..MaxArrLen}
    \cup {EmptyObj,
          Obj(K_items :> Null),
          Obj(K_items :> Str(<<"a", "b">>)),
          Obj(K_items :> Obj(K_name :> Str(<<"x">>))),
          Obj((K_name :> Str(<<"J">>)) @@ (K_user :> Obj(K_name :> Str(<<"K">>)))),
          Obj(K_items :> Arr(<<Obj(K_name :> Str(<<"x">>)), Hole, Elem(3)>>))}

\* the part of an array-mutation path before '@'
ArrayBases == {K_items, K_user \o <<".">> \o K_items}

AtIndexes == (0 - MaxNegIndex)..MaxIndex

AtPath(arrayPath, index) == arrayPath \o <<"@">> \o IntToString(index)

\* paths without '@'
PlainPaths ==
  {K_name,
   K_user \o <<".">> \o K_name,
   K_items,
   K_items \o <<".", "0">>,
   K_items \o <<"[", "1", "]">>,
   K_items \o <<".", "0", ".">> \o K_name,
   K_items \o <<"[", "0", "]", ".">> \o K_name,
   K_items \o <<".", "5">>,
   K_items \o <<".">> \o K_name,
   K_user \o <<".">> \o K_items \o <<"[", "0", "]">>,
   <<"m", ".", "p">>,
   \* a bracketed index with no '.' after it
   K_items \o <<"[", "0", "]">> \o K_name}

ManipValues == {Str(<<"x">>), Num(7), Obj(K_name :> Str(<<"y">>))}

NoCall == [name |-> "none"]

ManipInit ==
  /\ heap \in {<<o>> : o \in ManipObjects}
  /\ op = NoCall
  /\ ret = NoCall
  /\ pre = heap

\* one call that mutates the object behind reference 1 in place
Mutation(call, r) ==
  /\ heap' = [heap EXCEPT ![1] = r.obj]
  /\ op' = call
  /\ ret' = [err |-> r.err, value |-> Undefined]
  /\ pre' = heap

InsertAtIndex ==
  /\ op = NoCall
  /\ \E arrayPath \in ArrayBases, index \in AtIndexes, value \in ManipValues :
       LET path == AtPath(arrayPath, index)
       IN  Mutation([name |-> "insertAtIndex", path |-> path, value |-> value,
                     arrayPath |-> arrayPath, index |-> index],
                    insertAtIndex(heap[1], path, value))

RemoveAtIndex ==
  /\ op = NoCall
  /\ \E arrayPath \in ArrayBases, index \in AtIndexes :
       LET path == AtPath(arrayPath, index)
       IN  Mutation([name |-> "removeAtIndex", path |-> path,
                     arrayPath |-> arrayPath, index |-> index],
                    removeAtIndex(heap[1], path))

SetValueAtIndex ==
  /\ op = NoCall
  /\ \E arrayPath \in ArrayBases, index \in AtIndexes, value \in ManipValues :
       LET path == AtPath(arrayPath, index)
       IN  Mutation([name |-> "setValueAtIndex", path |-> path, value |-> value,
                     arrayPath |-> arrayPath, index |-> index],
                    setValueAtIndex(heap[1], path, value))

SetPropertyValue ==
  /\ op = NoCall
  /\ \E path \in PlainPaths, value \in ManipValues :
       Mutation([name |-> "setPropertyValue", path |-> path, value |-> value],
                setPropertyValue(heap[1], path, value))

DeleteProperty ==
  /\ op = NoCall
  /\ \E path \in PlainPaths :
       Mutation([name |-> "deleteProperty", path |-> path],
                deleteProperty(heap[1], path))

GetPropertyValue ==
  /\ op = NoCall
  /\ \E path \in PlainPaths, defaultValue \in {Undefined, Str(<<"d">>)} :
       /\ op' = [name |-> "getPropertyValue", path |-> path,
                 defaultValue |-> defaultValue]
       /\ ret' = [err |-> "none",
                  value |-> getPropertyValue(heap[1], path, defaultValue)]
       /\ pre' = heap
       /\ UNCHANGED heap

ManipNext ==
  \/ InsertAtIndex
  \/ RemoveAtIndex
  \/ SetValueAtIndex
  \/ SetPropertyValue
  \/ DeleteProperty
  \/ GetPropertyValue

SpecManip == ManipInit /\ [][ManipNext]_vars

(***************************************************************************)
(* Calls of the DocumentChangeParser: one call of an entry point on the    *)
(* object behind reference 1, with a change list drawn from                *)
(* EngineDescriptors and every shape of options.                           *)
(***************************************************************************)
K_age == <<"a", "g", "e">>

K_address == <<"a", "d", "d", "r", "e", "s", "s">>

K_city == <<"c", "i", "t", "y">>

K_data == <<"d", "a", "t", "a">>

EngineObjects ==
  {Obj(K_name :> Str(<<"J", "o", "h", "n">>)),
   Obj((K_name :> Str(<<"J", "o", "h", "n">>)) @@ (K_items :> ArrayOfLen(2)))}

EngineDescriptors ==
  {updateStringDescriptor(K_name, <<"J", "a", "n", "e">>),
   createObjectDescriptor(K_address, Obj(K_city :> Str(<<"P">>))),
   createStringDescriptor(AtPath(K_items, 1), <<"x">>),
   deleteDescriptor(AtPath(K_items, 0)),
   deleteDescriptor(K_name),
   \* a path the pattern rejects
   createStringDescriptor(<<".">> \o K_name, <<"t">>),
   \* CREATE without newValue and newValueType
   [deleteDescriptor(K_name) EXCEPT !.type = "CREATE"],
   \* no JSON text
   createDescriptor("UPDATE", K_data, <<"{", "b">>, "object")}

OptionsValues ==
  {Undefined, Options(Undefined), Options(Bool(TRUE)), Options(Bool(FALSE))}

SeqsUpTo(S, n) == UNION {[1..k -> S] : k \in 0..n}

\* flat cut into the document changes that end at the positions of cuts
RECURSIVE Grouped(_, _, _)
Grouped(flat, cuts, from) ==
  IF from > Len(flat) THEN <<>>
  ELSE LET ends == {c \in cuts : c >= from}
           to == IF ends = {} THEN Len(flat)
                 ELSE CHOOSE c \in ends : \A d \in ends : c <= d
       IN  <<wrapChanges(SubSeq(flat, from, to))>> \o Grouped(flat, cuts, to + 1)

\* every list of non-empty document changes with at most MaxDescs descriptors
DocumentChangeLists ==
  UNION {{Grouped(flat, cuts, 1) : cuts \in SUBSET (1..(Len(flat) - 1))} :
           flat \in SeqsUpTo(EngineDescriptors, MaxDescs)}

DocumentChanges == {wrapChanges(flat) : flat \in SeqsUpTo(EngineDescriptors, MaxDescs)}

Init ==
  /\ heap \in {<<o>> : o \in EngineObjects}
  /\ op = NoCall
  /\ ret = NoCall
  /\ pre = heap

\* one call of an entry point with result r
Called(call, r) ==
  /\ heap' = r.heap
  /\ op' = call
  /\ ret' = [err |-> r.err, detail |-> r.detail, value |-> r.value]
  /\ pre' = heap

ApplyChange ==
  /\ op = NoCall
  /\ \E documentChange \in DocumentChanges, options \in OptionsValues :
       Called([name |-> "applyChange", changes |-> <<documentChange>>,
               options |-> options],
              applyChange(heap, 1, documentChange, options))

ApplyChanges ==
  /\ op = NoCall
  /\ \E documentChanges \in DocumentChangeLists, options \in OptionsValues :
       Called([name |-> "applyChanges", changes |-> documentChanges,
               options |-> options],
              applyChanges(heap, 1, documentChanges, options))

GetCopyWithChange ==
  /\ op = NoCall
  /\ \E documentChange \in DocumentChanges, options \in OptionsValues :
       Called([name |-> "getCopyWithChange", changes |-> <<documentChange>>,
               options |-> options],
              getCopyWithChange(heap, 1, documentChange, options))

GetCopyWithChanges ==
  /\ op = NoCall
  /\ \E documentChanges \in DocumentChangeLists, options \in OptionsValues :
       Called([name |-> "getCopyWithChanges", changes |-> documentChanges,
               options |-> options],
              getCopyWithChanges(heap, 1, documentChanges, options))

Next ==
  \/ ApplyChange
  \/ ApplyChanges
  \/ GetCopyWithChange
  \/ GetCopyWithChanges

Spec == Init /\ [][Next]_vars

(***************************************************************************)
(* Properties of the array-mutation helpers                                *)
(***************************************************************************)
\* the value the '@' path of the call addressed, before and after the call
TargetBefore == getPropertyValue(pre[1], op.arrayPath, Undefined)

TargetAfter == getPropertyValue(heap[1], op.arrayPath, Undefined)

OnExistingArray(name) ==
  /\ op.name = name
  /\ TargetBefore.t = "array"

\* C8: insertAtIndex with any negative index appends the value at the end of
\* the array: afterwards the array is the old array followed by the value.
C8_NegativeIndexAppends ==
  (OnExistingArray("insertAtIndex") /\ op.index < 0)
    => /\ ret.err = "none"
       /\ TargetAfter.t = "array"
       /\ TargetAfter.v = Append(TargetBefore.v, op.value)

Min(a, b) == IF a < b THEN a ELSE b

\* C9: insertAtIndex with a non-negative index i on an existing array of
\* length n inserts the value before position min(i, n): the array grows by
\* one, the elements before that position stay, the elements from it on move
\* up by one, and an index beyond the length appends instead of failing.
C9_InsertBefore ==
  (OnExistingArray("insertAtIndex") /\ op.index >= 0)
    => LET old == TargetBefore.v
           new == TargetAfter.v
           n == Len(old)
           m == Min(op.index, n)
       IN  /\ ret.err = "none"
           /\ TargetAfter.t = "array"
           /\ Len(new) = n + 1
           /\ \A k \in 1..m : new[k] = old[k]
           /\ new[m + 1] = op.value
           /\ \A k \in (m + 1)..n : new[k + 1] = old[k]

\* an insert beyond the end of a non-empty array
C9_Witness ==
  /\ OnExistingArray("insertAtIndex")
  /\ Len(TargetBefore.v) >= 1
  /\ op.index > Len(TargetBefore.v)
  /\ Len(TargetAfter.v) = Len(TargetBefore.v) + 1

\* C10: removeAtIndex removes exactly the element at index i, moving the
\* later ones down, when 0 <= i < length; for any other index it leaves the
\* array and the whole root unchanged and does not throw.
C10_RemoveInRangeOnly ==
  OnExistingArray("removeAtIndex")
    => LET old == TargetBefore.v
           n == Len(old)
           i == op.index
       IN  /\ ret.err = "none"
           /\ IF 0 <= i /\ i < n
              THEN /\ TargetAfter.t = "array"
                   /\ TargetAfter.v = SubSeq(old, 1, i) \o SubSeq(old, i + 2, n)
              ELSE heap = pre

\* the middle element of an array was removed
C10_Witness ==
  /\ OnExistingArray("removeAtIndex")
  /\ op.index >= 1
  /\ op.index + 1 < Len(TargetBefore.v)
  /\ Len(TargetAfter.v) = Len(TargetBefore.v) - 1

Max(a, b) == IF a > b THEN a ELSE b

ArrayMutation == op.name \in {"insertAtIndex", "setValueAtIndex", "removeAtIndex"}

\* C12: insertAtIndex, setValueAtIndex and removeAtIndex, when the part of
\* the path before '@' resolves to a missing or null value, leave the root
\* object as it was (no array is created in it) and raise no error.
C12_AbsentContainerUntouched ==
  (ArrayMutation /\ TargetBefore = Undefined)
    => /\ ret.err = "none"
       /\ heap = pre

\* an insert through a path whose array is null
C12_Witness ==
  /\ op.name = "insertAtIndex"
  /\ op.index >= 0
  /\ GetProp(pre[1], K_items) = Null
  /\ TargetBefore = Undefined
  /\ heap = pre

\* C11: setValueAtIndex on an existing array, with an index i >= 0, makes
\* the element at i the value and leaves the element at every other
\* position as it was; with any negative index, -1 included, it changes
\* nothing; it does not throw.
C11_SetOverwrites ==
  OnExistingArray("setValueAtIndex")
    => /\ ret.err = "none"
       /\ IF op.index >= 0
          THEN /\ TargetAfter.t = "array"
               /\ GetProp(TargetAfter, IntToString(op.index)) = op.value
               /\ Len(TargetAfter.v) = Max(Len(TargetBefore.v), op.index + 1)
               /\ \A k \in 0..Len(TargetAfter.v) :
                    k # op.index
                      => GetProp(TargetAfter, IntToString(k))
                           = GetProp(TargetBefore, IntToString(k))
          ELSE heap = pre

\* an element in the middle of an array was overwritten
C11_Witness ==
  /\ OnExistingArray("setValueAtIndex")
  /\ op.index >= 1
  /\ op.index + 1 < Len(TargetBefore.v)
  /\ TargetAfter # TargetBefore
  /\ GetProp(TargetAfter, IntToString(op.index)) = op.value

(***************************************************************************)
(* Properties of setPropertyValue, deleteProperty and getPropertyValue     *)
(***************************************************************************)
PathKeys == parsePath(op.path)

\* the value that the first j keys of the path lead to in root; Undefined
\* when the walk meets undefined or null before the last of them
ValueAt(root, j) ==
  LET Reached(w) == IF w.done THEN w.value ELSE Undefined
  IN  Reached(GetWalk(root, SubSeq(PathKeys, 1, j), 1))

\* containers a and b are of one kind and hold the same under every key
\* but key
SameExcept(a, b, key) ==
  /\ a.t = b.t
  /\ IF a.t = "object"
     THEN /\ DOMAIN a.v \ {key} = DOMAIN b.v \ {key}
          /\ \A k \in DOMAIN a.v \ {key} : a.v[k] = b.v[k]
     ELSE /\ \A i \in 0..Max(Len(a.v), Len(b.v)) :
               IntToString(i) # key
                 => GetProp(a, IntToString(i)) = GetProp(b, IntToString(i))
          /\ DOMAIN a.p \ {key} = DOMAIN b.p \ {key}
          /\ \A k \in DOMAIN a.p \ {key} : a.p[k] = b.p[k]

\* what the container under the first j keys is before the walk goes on
\* with nextKey: the one there was, or a new empty one chosen by nextKey
Vivified(before, nextKey) ==
  IF IsNullish(before)
  THEN (IF AllDigits(nextKey) THEN EmptyArr ELSE EmptyObj)
  ELSE before

\* after setPropertyValue every container along the path is the one there
\* was, or a new one of the kind the next key asks for, changed under the
\* next key only, and the last key holds the value
VivifiedAlongPath ==
  /\ ret.err = "none"
  /\ \A j \in 0..(Len(PathKeys) - 1) :
       SameExcept(ValueAt(heap[1], j),
                  Vivified(ValueAt(pre[1], j), PathKeys[j + 1]),
                  PathKeys[j + 1])
  /\ ValueAt(heap[1], Len(PathKeys)) = op.value

\* a value on the way along the path, before the call, is a primitive
PrimitiveOnPath ==
  \E j \in 1..(Len(PathKeys) - 1) :
    ~IsNullish(ValueAt(pre[1], j)) /\ ~IsContainer(ValueAt(pre[1], j))

\* C13 as stated: setPropertyValue replaces every undefined or null value
\* on the way by a new empty array when the next key is all digits and by a
\* new empty object otherwise, reuses every other intermediate value,
\* leaves the last key holding the value, and changes nothing off the path.
C13_VivifiesAlways ==
  op.name = "setPropertyValue" => VivifiedAlongPath

\* C13: the same for a path whose existing intermediate values are objects
\* or arrays; when one of them is a primitive (a string, a number) the
\* call throws a TypeError and leaves the root as it was.
C13_VivifiesThroughContainers ==
  op.name = "setPropertyValue"
    => IF PrimitiveOnPath
       THEN ret.err = "TypeError" /\ heap = pre
       ELSE VivifiedAlongPath

\* items.0.name set on {} gives {items: [{name: value}]}
C13_Witness ==
  /\ op.name = "setPropertyValue"
  /\ pre[1] = EmptyObj
  /\ op.path = K_items \o <<".", "0", ".">> \o K_name
  /\ heap[1] = Obj(K_items :> Arr(<<Obj(K_name :> op.value)>>))

\* the key of the leaf and the container that holds it before the call
LeafKey == PathKeys[Len(PathKeys)]

LeafParent == ValueAt(pre[1], Len(PathKeys) - 1)

\* a value on the way to the leaf's parent is undefined or null
MissingOnPath ==
  \E j \in 1..(Len(PathKeys) - 1) : IsNullish(ValueAt(pre[1], j))

\* the containers above the leaf's parent changed under the path's key only
OnlyPathChanged ==
  \A j \in 0..(Len(PathKeys) - 2) :
    SameExcept(ValueAt(heap[1], j), ValueAt(pre[1], j), PathKeys[j + 1])

C15_GetStoredOrDefault ==
  op.name = "getPropertyValue"
    => /\ ret.err = "none"
       /\ heap = pre
       /\ ret.value = IF MissingOnPath \/ IsNullish(LeafParent)
                         \/ GetProp(LeafParent, LeafKey) = Undefined
                      THEN op.defaultValue
                      ELSE GetProp(LeafParent, LeafKey)

\* the digits of a bracketed index that opens at position i of path, <<>>
\* when none does
BracketedAt(path, i) ==
  IF i > Len(path) \/ path[i] # "[" THEN <<>>
  ELSE LET closing == IndexOf(path, "]", i)
       IN  IF closing > i + 1 /\ AllDigits(SubSeq(path, i + 1, closing - 1))
           THEN SubSeq(path, i + 1, closing - 1)
           ELSE <<>>

\* path with every bracketed index [n] written .n
RECURSIVE Dotted(_, _)
Dotted(path, i) ==
  IF i > Len(path) THEN <<>>
  ELSE IF BracketedAt(path, i) # <<>>
       THEN <<".">> \o BracketedAt(path, i)
              \o Dotted(path, i + Len(BracketedAt(path, i)) + 2)
  ELSE <<path[i]>> \o Dotted(path, i + 1)

\* every bracketed index of path is followed by '.', by '[' or by nothing
BracketsEndSegments(path) ==
  \A i \in 1..Len(path) :
    BracketedAt(path, i) # <<>>
      => LET after == i + Len(BracketedAt(path, i)) + 2
         IN  after > Len(path) \/ path[after] \in {".", "["}

PathCall == op.name \in {"getPropertyValue", "setPropertyValue", "deleteProperty"}

\* the call has the outcome that the same call with the dotted path has,
\* and set on an index in range replaces that element
SameAsDotted ==
  /\ parsePath(op.path) = parsePath(Dotted(op.path, 1))
  /\ op.name = "getPropertyValue"
       => ret.value = getPropertyValue(pre[1], Dotted(op.path, 1), op.defaultValue)
  /\ op.name = "setPropertyValue"
       => /\ [obj |-> heap[1], err |-> ret.err]
               = setPropertyValue(pre[1], Dotted(op.path, 1), op.value)
          /\ (/\ ~MissingOnPath
              /\ LeafParent.t = "array"
              /\ AllDigits(LeafKey)
              /\ DecValue(LeafKey) < Len(LeafParent.v))
               => Len(ValueAt(heap[1], Len(PathKeys) - 1).v) = Len(LeafParent.v)
  /\ op.name = "deleteProperty"
       => [obj |-> heap[1], err |-> ret.err]
            = deleteProperty(pre[1], Dotted(op.path, 1))

RECURSIVE Flatten(_)
Flatten(documentChanges) ==
  IF documentChanges = <<>> THEN <<>>
  ELSE documentChanges[1].changes \o Flatten(Tail(documentChanges))

\* the descriptors of the call, in the order of the lists that hold them
Descriptors == Flatten(op.changes)

InPlaceCall == op.name \in {"applyChange", "applyChanges"}

CopyCall == op.name \in {"getCopyWithChange", "getCopyWithChanges"}

\* applyChange of descriptor d alone, with the options of the call
Alone(h, d) == applyChange(h, 1, wrapChanges(<<d>>), op.options)

\* the heap after the first n descriptors of ds, each applied alone
RECURSIVE OneByOne(_, _, _)
OneByOne(h, ds, n) ==
  IF n = 0 THEN h ELSE Alone(OneByOne(h, ds, n - 1), ds[n]).heap

\* what the in-place entry point of a copy call does to an object equal to
\* the caller's
InPlaceOnEqual ==
  IF op.name = "getCopyWithChange"
  THEN applyChange(pre, 1, op.changes[1], op.options)
  ELSE applyChanges(pre, 1, op.changes, op.options)

\* C1: getCopyWithChange and getCopyWithChanges never change the caller's
\* object: whether the call returns or throws, the object is what it was
\* before; a returned object is another reference, and it equals what
\* applyChange / applyChanges makes of an object equal to the caller's.
C1_CopyLeavesOriginal ==
  CopyCall
    => /\ heap[1] = pre[1]
       /\ ret.err = InPlaceOnEqual.err
       /\ ret.err = "none"
            => /\ ret.value.t = "ref"
               /\ ret.value # Ref(1)
               /\ heap[ret.value.v] = InPlaceOnEqual.heap[1]

\* a copy call returned a copy that differs from the untouched original
C1_Witness ==
  /\ CopyCall
  /\ ret.err = "none"
  /\ heap[1] = pre[1]
  /\ heap[ret.value.v] # pre[1]

Failures == {"InvalidPathError", "MissingValue", "DecodeFailure"}

\* descriptor k is the first that fails: the ones before it apply, and it
\* fails on the object they leave
FailsAt(k) ==
  /\ \A j \in 1..(k - 1) :
       Alone(OneByOne(pre, Descriptors, j - 1), Descriptors[j]).err = "none"
  /\ Alone(OneByOne(pre, Descriptors, k - 1), Descriptors[k]).err \in Failures

\* C2: no rollback on failure.  When descriptor k of the flattened sequence
\* given to applyChange / applyChanges fails (invalid path, missing value,
\* decode failure), the call throws that error, the object is exactly what
\* descriptors 1..k-1 applied in order leave, descriptor k has changed
\* nothing and no later descriptor is applied.
C2_NoRollback ==
  InPlaceCall
    => \A k \in 1..Len(Descriptors) :
         FailsAt(k)
           => LET before == OneByOne(pre, Descriptors, k - 1)
                  failing == Alone(before, Descriptors[k])
              IN  /\ ret.err = failing.err
                  /\ ret.detail = failing.detail
                  /\ ret.value = Undefined
                  /\ failing.heap = before
                  /\ heap = before

\* the second descriptor failed after the first had changed the object
C2_Witness ==
  /\ InPlaceCall
  /\ Len(Descriptors) = 2
  /\ FailsAt(2)
  /\ ret.err \in Failures
  /\ heap # pre

\* applyChanges of list L1, then of list L2 unless the first call threw
InTwoCalls(L1, L2) ==
  LET Second(first) == IF first.err # "none" THEN first
                       ELSE applyChanges(first.heap, 1, L2, op.options)
  IN  Second(applyChanges(pre, 1, L1, op.options))

\* C3: applyChange applies the descriptors in list order to the one object,
\* in place, and returns the object it was given; applyChanges applies the
\* document changes in list order, so the outcome is that of the
\* concatenation of their descriptors applied one by one, and applying a
\* list L1 and then a list L2 is applying L1 followed by L2 in one call.
C3_InOrderInPlace ==
  InPlaceCall
    => /\ Len(heap) = Len(pre)
       /\ ret.err = "none"
            => /\ ret.value = Ref(1)
               /\ heap = OneByOne(pre, Descriptors, Len(Descriptors))
               /\ heap = applyChange(pre, 1, wrapChanges(Descriptors), op.options).heap
       /\ \A n \in 0..Len(op.changes) :
            LET both == InTwoCalls(SubSeq(op.changes, 1, n),
                                   SubSeq(op.changes, n + 1, Len(op.changes)))
            IN  /\ both.heap = heap
                /\ both.err = ret.err

Reverse(seq) == [i \in 1..Len(seq) |-> seq[Len(seq) + 1 - i]]

\* two descriptors were applied whose order matters
C3_Witness ==
  /\ InPlaceCall
  /\ Len(Descriptors) = 2
  /\ ret.err = "none"
  /\ heap # pre
  /\ heap # OneByOne(pre, Reverse(Descriptors), 2)

\* options that do not set validatePaths to false
NotSwitchedOff(options) ==
  options = Undefined \/ options.validatePaths # Bool(FALSE)

\* C4: path validation is on by default.  For every entry point and every
\* options value that does not set validatePaths to false (options left
\* out, or an options object without validatePaths), a descriptor whose
\* path fails isValidPropertyPath makes the call fail with InvalidPathError
\* carrying that path.
C4_ValidationOnByDefault ==
  (/\ InPlaceCall \/ CopyCall
   /\ NotSwitchedOff(op.options)
   /\ Descriptors # <<>>
   /\ ~isValidPropertyPath(Descriptors[1].propertyPath))
    => /\ ret.err = "InvalidPathError"
       /\ ret.detail = Str(Descriptors[1].propertyPath)

(***************************************************************************)
(* Calls of isValidPropertyPath: the path is drawn at the start, the call  *)
(* tests it.                                                               *)
(***************************************************************************)
PathAlphabet == {"a", "0", ".", "[", "]", "@", "-"}

\* the paths of the validation tests that the pattern accepts
AcceptedExamples ==
  {K_name,
   K_user \o <<".">> \o K_name,
   K_items \o <<"[", "0", "]">>,
   K_items \o <<"[", "0", "]", ".">> \o K_name,
   AtPath(K_items, 0),
   AtPath(K_user \o <<".">> \o K_items, 0)}

\* the paths of the validation tests that the pattern rejects
RejectedExamples ==
  {<<>>,
   <<"1", "2", "3">>,
   <<".">> \o K_name,
   K_name \o <<".">>}

PathInputs ==
  SeqsUpTo(PathAlphabet, MaxPathLen) \cup AcceptedExamples \cup RejectedExamples

PathInit ==
  /\ heap = <<>>
  /\ op \in {[name |-> "path", path |-> path] : path \in PathInputs}
  /\ ret = NoCall
  /\ pre = heap

IsValidPropertyPath ==
  /\ op.name = "path"
  /\ op' = [op EXCEPT !.name = "isValidPropertyPath"]
  /\ ret' = [err |-> "none", value |-> Bool(isValidPropertyPath(op.path))]
  /\ UNCHANGED <<heap, pre>>

PathNext == IsValidPropertyPath

SpecPath == PathInit /\ [][PathNext]_vars

(***************************************************************************)
(* Properties of isValidPropertyPath                                       *)
(***************************************************************************)
\* identifier := [A-Za-z_$][A-Za-z0-9_$]*
IsIdentifier(s) ==
  /\ Len(s) >= 1
  /\ IsIdentStart(s[1])
  /\ \A i \in 2..Len(s) : IsIdentPart(s[i])

\* '-'? digit+
SignedIndex(s) == AllDigits(IF s # <<>> /\ s[1] = "-" THEN Tail(s) ELSE s)

\* digit+
UnsignedIndex(s) == AllDigits(s)

\* segment := identifier ('[' index ']')?, the index in brackets signed or not
IsSegment(seg, signed) ==
  \E n \in 1..Len(seg) :
    /\ IsIdentifier(SubSeq(seg, 1, n))
    /\ \/ n = Len(seg)
       \/ /\ Len(seg) >= n + 2
          /\ seg[n + 1] = "["
          /\ seg[Len(seg)] = "]"
          /\ IF signed
             THEN SignedIndex(SubSeq(seg, n + 2, Len(seg) - 1))
             ELSE UnsignedIndex(SubSeq(seg, n + 2, Len(seg) - 1))

\* path := segment ('.' segment)* ('@' index)?, the index after '@' signed
MatchesGrammar(path, signed) ==
  LET parts == Split(path, "@")
      segments == Split(parts[1], ".")
  IN  /\ Len(parts) <= 2
      /\ Len(parts) = 2 => SignedIndex(parts[2])
      /\ \A k \in 1..Len(segments) : IsSegment(segments[k], signed)

PathTested == op.name = "isValidPropertyPath"

ExamplesAsTested ==
  /\ op.path \in AcceptedExamples => ret.value = Bool(TRUE)
  /\ op.path \in RejectedExamples => ret.value = Bool(FALSE)

\* C5 as stated: isValidPropertyPath(path) is true exactly when the whole
\* string is '.'-separated segments, each an identifier with at most one
\* bracketed index, then at most one '@' index, where an index in brackets
\* and after '@' alike is an optional '-' and one or more digits; the
\* listed examples are accepted and rejected as listed.
C5_SignedIndexEverywhere ==
  PathTested
    => /\ ret.value = Bool(MatchesGrammar(op.path, TRUE))
       /\ ExamplesAsTested

\* C5: isValidPropertyPath(path) is true exactly when the whole string is
\* '.'-separated segments, each an identifier with at most one bracketed
\* index of one or more digits without a sign, then at most one '@' index
\* of an optional '-' and one or more digits; the listed examples are
\* accepted and rejected as listed.
C5_SignOnlyAfterAt ==
  PathTested
    => /\ ret.value = Bool(MatchesGrammar(op.path, FALSE))
       /\ ExamplesAsTested

\* a negative index in brackets was rejected
C5_Witness ==
  /\ PathTested
  /\ op.path = <<"a", "[", "-", "0", "]">>
  /\ ret.value = Bool(FALSE)

(***************************************************************************)
(* Calls that apply one descriptor of type OBJECT made by the builder from *)
(* a value, or from the JSON text of the value (a double encoding).        *)
(***************************************************************************)
JsonValues ==
  {ArrayOfLen(n) : n \in 0..MaxArrLen}
    \cup {EmptyObj,
          Obj(K_city :> Str(<<"P">>)),
          Obj((K_name :> Str(<<"J">>)) @@ (K_age :> Num(30))),
          Obj(K_user :> Obj(K_items :> Arr(<<Num(1), Null>>))),
          Arr(<<Num(1), Null, Bool(TRUE), EmptyArr, Obj(K_name :> Str(<<"x">>))>>),
          Num(0), Num(42), Num(0 - 7),
          Bool(TRUE), Bool(FALSE), Null,
          Str(<<>>),
          Str(<<"h", "e", "l", "l", "o">>),
          Str(<<"1", "2", "3">>),
          Str(<<"t", "r", "u", "e">>),
          Str(<<"[", "1", "]">>),
          Str(<<Quote, "a", Quote>>),
          Str(<<"a", Backslash, "b", "\n", "c">>)}

DecodeObjects == {Obj(K_items :> ArrayOfLen(n)) : n \in 1..MaxArrLen}

DecodePaths == {K_data, AtPath(K_items, 0)}

\* the value handed to the builder: x, or JSON.stringify(x) the second time
Encoded(x, times) == IF times = 2 THEN Str(JSONstringify(x)) ELSE x

DecodeInit ==
  /\ heap \in {<<o>> : o \in DecodeObjects}
  /\ op = NoCall
  /\ ret = NoCall
  /\ pre = heap

ApplyObjectDescriptor ==
  /\ op = NoCall
  /\ \E x \in JsonValues, times \in {1, 2}, type \in {"CREATE", "UPDATE"},
        path \in DecodePaths :
       LET descriptor == IF type = "CREATE"
                         THEN createObjectDescriptor(path, Encoded(x, times))
                         ELSE updateObjectDescriptor(path, Encoded(x, times))
       IN  Called([name |-> "applyObjectDescriptor", x |-> x, times |-> times,
                   descriptor |-> descriptor],
                  applyChange(heap, 1, wrapChanges(<<descriptor>>), Undefined))

DecodeNext == ApplyObjectDescriptor

SpecDecode == DecodeInit /\ [][DecodeNext]_vars

(***************************************************************************)
(* Properties of the decoding of OBJECT values                             *)
(***************************************************************************)
ObjectDescriptorApplied == op.name = "applyObjectDescriptor"

\* the value the object holds where the descriptor put one
Stored ==
  IF isArrayChange(op.descriptor.propertyPath)
  THEN GetProp(GetProp(heap[1], K_items), <<"0">>)
  ELSE GetProp(heap[1], K_data)

\* C6 as stated: for every JSON-representable x, strings included, a CREATE
\* or UPDATE descriptor of type OBJECT whose newValue is JSON.stringify(x)
\* stores a value equal to x, and so does one whose newValue is
\* JSON.stringify(JSON.stringify(x)).
C6_DecodeRoundTrip ==
  ObjectDescriptorApplied
    => /\ ret.err = "none"
       /\ Stored = op.x

\* C6: a CREATE or UPDATE descriptor of type OBJECT whose newValue is
\* JSON.stringify(JSON.stringify(x)) stores a value equal to x for every
\* JSON-representable x; one whose newValue is JSON.stringify(x) does so
\* for every x that is not a string.  A string x encoded once is decoded a
\* second time: the descriptor stores JSON.parse(x) when x is a JSON text
\* and fails, changing nothing, when it is not.
C6_RoundTripButOnceEncodedString ==
  ObjectDescriptorApplied
    => IF op.times = 2 \/ op.x.t # "string"
       THEN /\ ret.err = "none"
            /\ Stored = op.x
       ELSE IF JSONparse(op.x.v).err = "none"
            THEN /\ ret.err = "none"
                 /\ Stored = JSONparse(op.x.v).val
            ELSE /\ ret.err = "DecodeFailure"
                 /\ heap = pre

\* a nested object, encoded twice, was stored
C6_Witness ==
  /\ ObjectDescriptorApplied
  /\ op.times = 2
  /\ op.x = Obj(K_user :> Obj(K_items :> Arr(<<Num(1), Null>>)))
  /\ ret.err = "none"
  /\ Stored = op.x
  /\ heap # pre

(***************************************************************************)
(* Calls that apply one UPDATE descriptor, and then the same descriptor a  *)
(* second time.                                                            *)
(***************************************************************************)
UpdatePaths ==
  PlainPaths \cup {AtPath(arrayPath, index) :
                     arrayPath \in ArrayBases, index \in AtIndexes}

UpdateDescriptors ==
  UNION {{updateStringDescriptor(path, <<"x">>),
          updateNumberDescriptor(path, Num(7)),
          updateNumberDescriptor(path, NaN),
          updateObjectDescriptor(path, Obj(K_name :> Str(<<"y">>))),
          updateObjectDescriptor(path, ArrayOfLen(1))} : path \in UpdatePaths}

UpdateInit == ManipInit

ApplyUpdate ==
  /\ op = NoCall
  /\ \E descriptor \in UpdateDescriptors,
        options \in {Undefined, Options(Bool(FALSE))} :
       Called([name |-> "update", descriptor |-> descriptor,
               options |-> options, times |-> 1, before |-> heap],
              applyChange(heap, 1, wrapChanges(<<descriptor>>), options))

ApplyUpdateAgain ==
  /\ op.name = "update"
  /\ op.times = 1
  /\ ret.err = "none"
  /\ Called([op EXCEPT !.times = 2],
            applyChange(heap, 1, wrapChanges(<<op.descriptor>>), op.options))

UpdateNext ==
  \/ ApplyUpdate
  \/ ApplyUpdateAgain

SpecUpdate == UpdateInit /\ [][UpdateNext]_vars

(***************************************************************************)
(* Properties of UPDATE                                                    *)
(***************************************************************************)
\* C7: an UPDATE descriptor (plain path or '@' path, any value type) that
\* applies without error, applied a second time in a row, leaves the
\* object equal to what the first application left.
C7_UpdateIdempotent ==
  (op.name = "update" /\ op.times = 2)
    => /\ ret.err = "none"
       /\ heap = pre

\* an UPDATE through an '@' path changed the object, then was applied again
C7_Witness ==
  /\ op.name = "update"
  /\ op.times = 2
  /\ isArrayChange(op.descriptor.propertyPath)
  /\ pre # op.before
  /\ heap = pre

(***************************************************************************)
(* One descriptor through applyChange on an object of EngineObjects: every *)
(* change type on every kind of path, with newValue and newValueType       *)
(* present or absent, alone or after a descriptor that has already changed *)
(* the object.                                                             *)
(***************************************************************************)
FieldPaths ==
  {K_name, K_user \o <<".">> \o K_name, K_items, AtPath(K_items, 0),
   AtPath(K_items, 1), <<".">> \o K_name,
   \* more than one '@'
   AtPath(AtPath(K_items, 0), 1)}

\* newValue and newValueType of a descriptor: present, absent, no JSON text
FieldValues ==
  {<<Undefined, NoType>>, <<Str(<<"x">>), NoType>>, <<Undefined, "string">>,
   <<Str(<<"x">>), "string">>, <<Str(<<"{", "b">>), "object">>}

FieldDescriptors ==
  {[type |-> type, propertyPath |-> path, newValue |-> value[1],
    newValueType |-> value[2]] :
     type \in {"CREATE", "UPDATE", "DELETE"}, path \in FieldPaths,
     value \in FieldValues}

ApplyDescriptor ==
  /\ op = NoCall
  /\ \E change \in FieldDescriptors, options \in OptionsValues,
        prefix \in {<<>>, <<updateStringDescriptor(K_name, <<"J", "a", "n", "e">>)>>} :
       Called([name |-> "applyChange",
               changes |-> <<wrapChanges(Append(prefix, change))>>,
               options |-> options],
              applyChange(heap, 1, wrapChanges(Append(prefix, change)), options))

FieldNext == ApplyDescriptor

SpecField == Init /\ [][FieldNext]_vars

(***************************************************************************)
(* Properties of applyFieldChange                                          *)
(***************************************************************************)
\* the last descriptor of the call and the object the ones before it leave
Tested == Descriptors[Len(Descriptors)]

BeforeTested ==
  IF Len(Descriptors) = 1 THEN pre[1]
  ELSE PutProp(pre[1], K_name, Descriptors[1].newValue)

ValueMissing == Tested.newValue = Undefined \/ Tested.newValueType = NoType

\* the pattern accepts the path of the tested descriptor
PathAccepted == MatchesGrammar(Tested.propertyPath, FALSE)

ValidationOn ==
  op.options = Undefined \/ op.options.validatePaths = Bool(TRUE)

ValidationOff ==
  op.options # Undefined /\ op.options.validatePaths = Bool(FALSE)

\* C16: a CREATE or UPDATE descriptor without newValue or without
\* newValueType makes applyChange fail with the missing-value error; the
\* path is validated first, so a rejected path fails as an invalid path
\* instead, and the object is what the descriptors before left.  A DELETE
\* descriptor is applied without newValue and newValueType.
C16_MissingValueFails ==
  (op.name = "applyChange" /\ ValueMissing)
    => IF Tested.type \in {"CREATE", "UPDATE"}
       THEN /\ heap[1] = BeforeTested
            /\ ret.value = Undefined
            /\ ret.err \in {"MissingValue", "InvalidPathError"}
            /\ (PathAccepted \/ ValidationOff) => ret.err = "MissingValue"
            /\ (~PathAccepted /\ ValidationOn) => ret.err = "InvalidPathError"
            /\ ret.err = "MissingValue" => ret.detail = Str(Tested.type)
       ELSE /\ ret.err \in {"none", "InvalidPathError"}
            /\ (PathAccepted \/ ValidationOff) => ret.err = "none"
            /\ ret.err = "none"
                 => heap[1] = IF isArrayChange(Tested.propertyPath)
                              THEN removeAtIndex(BeforeTested, Tested.propertyPath).obj
                              ELSE deleteProperty(BeforeTested, Tested.propertyPath).obj

\* an UPDATE without newValueType failed after the descriptor before it had
\* changed the object
C16_Witness ==
  /\ op.name = "applyChange"
  /\ Len(Descriptors) = 2
  /\ Tested.type = "UPDATE"
  /\ Tested.newValue # Undefined
  /\ Tested.newValueType = NoType
  /\ ret.err = "MissingValue"
  /\ heap # pre

\* the descriptor reaches the dispatch: its path passes, and it is a DELETE
\* or carries a string value
Dispatched ==
  /\ op.name = "applyChange"
  /\ PathAccepted \/ ValidationOff
  /\ Tested.type = "DELETE" \/ (~ValueMissing /\ Tested.newValueType = "string")

\* what the operation of the ObjectManipulator that the claim names for the
\* tested descriptor makes of the object
DispatchTable ==
  IF isArrayChange(Tested.propertyPath)
  THEN CASE Tested.type = "CREATE" ->
              insertAtIndex(BeforeTested, Tested.propertyPath, Tested.newValue)
         [] Tested.type = "UPDATE" ->
              setValueAtIndex(BeforeTested, Tested.propertyPath, Tested.newValue)
         [] Tested.type = "DELETE" ->
              removeAtIndex(BeforeTested, Tested.propertyPath)
  ELSE CASE Tested.type \in {"CREATE", "UPDATE"} ->
              setPropertyValue(BeforeTested, Tested.propertyPath, Tested.newValue)
         [] Tested.type = "DELETE" ->
              deleteProperty(BeforeTested, Tested.propertyPath)

\* C17: a descriptor whose path contains '@' is applied as an array
\* mutation: CREATE inserts at the index, UPDATE sets the element at the
\* index, DELETE removes the element at the index.  A descriptor whose path
\* has no '@' is applied as a property change: CREATE and UPDATE both set
\* the value at the path, DELETE deletes the leaf.  The outcome of a DELETE
\* is the same whatever its newValue and newValueType are.
C17_Dispatch ==
  Dispatched
    => /\ ret.err = DispatchTable.err
       /\ heap[1] = DispatchTable.obj
       /\ ret.err = "none" => ret.value = Ref(1)

\* a DELETE that carries a text that is no JSON removed an array element
C17_Witness ==
  /\ Dispatched
  /\ Tested.type = "DELETE"
  /\ Tested.newValueType = "object"
  /\ isArrayChange(Tested.propertyPath)
  /\ ret.err = "none"
  /\ GetProp(pre[1], K_items).t = "array"
  /\ GetProp(heap[1], K_items).t = "array"
  /\ Len(GetProp(heap[1], K_items).v) = Len(GetProp(pre[1], K_items).v) - 1

(***************************************************************************)
(* DiffIdentifier: identifyChanges and the comparison it makes             *)
(***************************************************************************)
\* String(value)
StringOf(value) ==
  CASE value.t = "string" -> value.v
    [] value.t = "number" -> NumberToString(value)
    [] value.t = "NaN" -> NumberToString(value)
    [] value.t = "boolean" ->
         IF value.v THEN <<"t", "r", "u", "e">> ELSE <<"f", "a", "l", "s", "e">>
    [] value.t = "null" -> <<"n", "u", "l", "l">>
    [] value.t = "undefined" -> <<"u", "n", "d", "e", "f", "i", "n", "e", "d">>
    [] OTHER -> <<"[", "o", "b", "j", "e", "c", "t", "]">>

\* the error that identifyChanges and identifyInactive throw
InactiveItemError(itemName, errorType) ==
  [err |-> "InactiveItemError", itemName |-> itemName, errorType |-> errorType,
   value |-> Undefined]

\* Object.keys(x) of a container
ObjectKeys(x) ==
  IF x.t = "object" THEN DOMAIN x.v
  ELSE {IntToString(i - 1) : i \in {j \in 1..Len(x.v) : x.v[j] # Hole}}
         \cup DOMAIN x.p

\* deepEqual as it would be if it compared every key
RECURSIVE deepEqual_NoIgnore(_, _, _)
deepEqual_NoIgnore(obj1, obj2, ignoreFields) ==
  IF obj1 = obj2 /\ ~IsContainer(obj1) /\ obj1 # NaN THEN TRUE
  ELSE IF ~IsContainer(obj1) \/ ~IsContainer(obj2) THEN FALSE
  ELSE /\ Cardinality(ObjectKeys(obj1)) = Cardinality(ObjectKeys(obj2))
       /\ \A key \in ObjectKeys(obj1) :
            /\ key \in ObjectKeys(obj2)
            /\ deepEqual_NoIgnore(GetProp(obj1, key), GetProp(obj2, key), ignoreFields)

\* deepEqual as it would be without the comparison of the numbers of keys
RECURSIVE deepEqual_OneSided(_, _, _)
deepEqual_OneSided(obj1, obj2, ignoreFields) ==
  IF obj1 = obj2 /\ ~IsContainer(obj1) /\ obj1 # NaN THEN TRUE
  ELSE IF ~IsContainer(obj1) \/ ~IsContainer(obj2) THEN FALSE
  ELSE \A key \in ObjectKeys(obj1) \ ignoreFields :
         /\ key \in ObjectKeys(obj2) \ ignoreFields
         /\ deepEqual_OneSided(GetProp(obj1, key), GetProp(obj2, key), ignoreFields)

\* the two objects of a comparison are never one object: === holds between
\* equal primitives only
RECURSIVE deepEqual(_, _, _)
deepEqual(obj1, obj2, ignoreFields) ==
  IF obj1 = obj2 /\ ~IsContainer(obj1) /\ obj1 # NaN THEN TRUE
  ELSE IF ~IsContainer(obj1) \/ ~IsContainer(obj2) THEN FALSE
  ELSE LET Compare(keys1, keys2) ==
             /\ Cardinality(keys1) = Cardinality(keys2)
             /\ \A key \in keys1 :
                  /\ key \in keys2
                  /\ deepEqual(GetProp(obj1, key), GetProp(obj2, key), ignoreFields)
       IN  Compare(ObjectKeys(obj1) \ ignoreFields, ObjectKeys(obj2) \ ignoreFields)

\* the map of the existing items by name: a later item replaces an earlier
\* one of the same name
existingMap(existingItems, nameField) ==
  LET NameOf(k) == StringOf(GetProp(existingItems[k], nameField))
      Last(name) == CHOOSE k \in DOMAIN existingItems :
                      /\ NameOf(k) = name
                      /\ \A j \in DOMAIN existingItems : NameOf(j) = name => j <= k
  IN  [name \in {NameOf(k) : k \in DOMAIN existingItems} |-> existingItems[Last(name)]]

\* newItemsIterable: the values of a Map in insertion order; the values of
\* an object with its integer keys first, in ascending order
newItemsIterable(newItems) ==
  LET entries == newItems.entries
      IsIndex(entry) == IsArrayIndex(entry.key)
      IsName(entry) == ~IsArrayIndex(entry.key)
      indexed == SelectSeq(entries, IsIndex)
      named == SelectSeq(entries, IsName)
      Rank(k) == Cardinality({j \in DOMAIN indexed :
                                DecValue(indexed[j].key) <= DecValue(indexed[k].key)})
      sorted == [r \in DOMAIN indexed |->
                   indexed[CHOOSE k \in DOMAIN indexed : Rank(k) = r]]
      Items(es) == [k \in DOMAIN es |-> es[k].item]
  IN  IF newItems.isMap THEN Items(entries) ELSE Items(sorted \o named)

\* the loop of identifyChanges as it would be if the id of an unchanged item
\* were not recorded
RECURSIVE IdentifyEach_ChangedOnly(_, _, _, _, _)
IdentifyEach_ChangedOnly(items, i, existing, config, acc) ==
  IF i > Len(items) THEN [err |-> "none", value |-> acc]
  ELSE LET item == items[i]
           name == GetProp(item, config.nameField)
           nameStr == StringOf(name)
           ignoreFields == IF config.ignoreFields = Undefined THEN {}
                           ELSE {config.ignoreFields.v[k].v :
                                   k \in DOMAIN config.ignoreFields.v}
           Processed(a) ==
             [a EXCEPT !.processedIds = @ \cup {StringOf(GetProp(item, config.idField))}]
           Marked(x) == Truthy(GetProp(x, config.isDeletedField.v))
           Known(oldItem) ==
             IF Truthy(config.isDeletedField) /\ ~Marked(item) /\ Marked(oldItem)
             THEN InactiveItemError(nameStr, "ALREADY_DELETED")
             ELSE IdentifyEach_ChangedOnly(items, i + 1, existing, config,
                    IF ~deepEqual(oldItem, item, ignoreFields)
                    THEN Processed([acc EXCEPT !.updates =
                           Append(@, [oldItem |-> oldItem, newItem |-> item])])
                    ELSE acc)
       IN  IF ~Truthy(name)
           THEN IdentifyEach_ChangedOnly(items, i + 1, existing, config, acc)
           ELSE IF nameStr \in DOMAIN existing THEN Known(existing[nameStr])
           ELSE IdentifyEach_ChangedOnly(items, i + 1, existing, config,
                  Processed([acc EXCEPT !.inserts = Append(@, item)]))

\* the loop of identifyChanges as it would be if an incoming item marked
\* deleted were taken for a resurrection too
RECURSIVE IdentifyEach_AnyIncoming(_, _, _, _, _)
IdentifyEach_AnyIncoming(items, i, existing, config, acc) ==
  IF i > Len(items) THEN [err |-> "none", value |-> acc]
  ELSE LET item == items[i]
           name == GetProp(item, config.nameField)
           nameStr == StringOf(name)
           ignoreFields == IF config.ignoreFields = Undefined THEN {}
                           ELSE {config.ignoreFields.v[k].v :
                                   k \in DOMAIN config.ignoreFields.v}
           Processed(a) ==
             [a EXCEPT !.processedIds = @ \cup {StringOf(GetProp(item, config.idField))}]
           Marked(x) == Truthy(GetProp(x, config.isDeletedField.v))
           Known(oldItem) ==
             IF Truthy(config.isDeletedField) /\ Marked(oldItem)
             THEN InactiveItemError(nameStr, "ALREADY_DELETED")
             ELSE IdentifyEach_AnyIncoming(items, i + 1, existing, config,
                    Processed(IF ~deepEqual(oldItem, item, ignoreFields)
                              THEN [acc EXCEPT !.updates =
                                      Append(@, [oldItem |-> oldItem, newItem |-> item])]
                              ELSE acc))
       IN  IF ~Truthy(name)
           THEN IdentifyEach_AnyIncoming(items, i + 1, existing, config, acc)
           ELSE IF nameStr \in DOMAIN existing THEN Known(existing[nameStr])
           ELSE IdentifyEach_AnyIncoming(items, i + 1, existing, config,
                  Processed([acc EXCEPT !.inserts = Append(@, item)]))

\* the loop of identifyChanges from incoming item i on; existing is the map
\* of the existing items, acc the lists and the set built so far
RECURSIVE IdentifyEach(_, _, _, _, _)
IdentifyEach(items, i, existing, config, acc) ==
  IF i > Len(items) THEN [err |-> "none", value |-> acc]
  ELSE LET item == items[i]
           name == GetProp(item, config.nameField)
           nameStr == StringOf(name)
           ignoreFields == IF config.ignoreFields = Undefined THEN {}
                           ELSE {config.ignoreFields.v[k].v :
                                   k \in DOMAIN config.ignoreFields.v}
           Processed(a) ==
             [a EXCEPT !.processedIds = @ \cup {StringOf(GetProp(item, config.idField))}]
           Marked(x) == Truthy(GetProp(x, config.isDeletedField.v))
           Known(oldItem) ==
             IF Truthy(config.isDeletedField) /\ ~Marked(item) /\ Marked(oldItem)
             THEN InactiveItemError(nameStr, "ALREADY_DELETED")
             ELSE IdentifyEach(items, i + 1, existing, config,
                    Processed(IF ~deepEqual(oldItem, item, ignoreFields)
                              THEN [acc EXCEPT !.updates =
                                      Append(@, [oldItem |-> oldItem, newItem |-> item])]
                              ELSE acc))
       IN  IF ~Truthy(name)
           THEN IdentifyEach(items, i + 1, existing, config, acc)
           ELSE IF nameStr \in DOMAIN existing THEN Known(existing[nameStr])
           ELSE IdentifyEach(items, i + 1, existing, config,
                  Processed([acc EXCEPT !.inserts = Append(@, item)]))

identifyChanges(newItems, existingItems, config) ==
  IdentifyEach(newItemsIterable(newItems), 1,
               existingMap(existingItems, config.nameField), config,
               [inserts |-> <<>>, updates |-> <<>>, processedIds |-> {}])

\* String.prototype.trim
RECURSIVE Trim(_)
Trim(str) ==
  IF str = <<>> THEN str
  ELSE IF str[1] \in {" ", "\t", "\n"} THEN Trim(Tail(str))
  ELSE IF str[Len(str)] \in {" ", "\t", "\n"} THEN Trim(SubSeq(str, 1, Len(str) - 1))
  ELSE str

\* the loop of identifyInactive as it would be if the id were looked up as
\* it is, without trim
RECURSIVE InactiveEach_Untrimmed(_, _, _, _, _, _)
InactiveEach_Untrimmed(existingItems, i, processedIds, config, options, inactive) ==
  IF i > Len(existingItems) THEN [err |-> "none", value |-> inactive]
  ELSE LET item == existingItems[i]
           name == StringOf(GetProp(item, config.nameField))
           Reported == InactiveEach_Untrimmed(existingItems, i + 1, processedIds, config,
                                              options, Append(inactive, [name |-> name]))
       IN  IF StringOf(GetProp(item, config.idField)) \in processedIds
           THEN InactiveEach_Untrimmed(existingItems, i + 1, processedIds, config,
                                       options, inactive)
           ELSE IF /\ Truthy(config.isDeletedField)
                   /\ Truthy(GetProp(item, config.isDeletedField.v))
                THEN Reported
           ELSE IF Truthy(options.throwOnMissing)
                THEN InactiveItemError(name, "MISSING")
           ELSE Reported

\* the loop of identifyInactive from existing item i on; inactive is the
\* list built so far
RECURSIVE InactiveEach(_, _, _, _, _, _)
InactiveEach(existingItems, i, processedIds, config, options, inactive) ==
  IF i > Len(existingItems) THEN [err |-> "none", value |-> inactive]
  ELSE LET item == existingItems[i]
           name == StringOf(GetProp(item, config.nameField))
           Reported == InactiveEach(existingItems, i + 1, processedIds, config,
                                    options, Append(inactive, [name |-> name]))
       IN  IF Trim(StringOf(GetProp(item, config.idField))) \in processedIds
           THEN InactiveEach(existingItems, i + 1, processedIds, config,
                             options, inactive)
           ELSE IF /\ Truthy(config.isDeletedField)
                   /\ Truthy(GetProp(item, config.isDeletedField.v))
                THEN Reported
           ELSE IF Truthy(options.throwOnMissing)
                THEN InactiveItemError(name, "MISSING")
           ELSE Reported

\* options left out is Undefined; an options object holds throwOnMissing,
\* Undefined when it is not set
identifyInactive(existingItems, processedIds, config, options) ==
  InactiveEach(existingItems, 1, processedIds, config,
               IF options = Undefined
               THEN [t |-> "options", throwOnMissing |-> Bool(TRUE)]
               ELSE options,
               <<>>)

(***************************************************************************)
(* Calls of identifyChanges: the existing items are drawn at the start,    *)
(* the incoming items and the configuration with the call.                 *)
(***************************************************************************)
MaxItems == 2

\* an item of the tests; a field given as Undefined is left out
TestItem(id, name, value, isDeleted) ==
  LET all == (<<"i", "d">> :> id) @@ (K_name :> name)
               @@ (<<"v", "a", "l", "u", "e">> :> value)
               @@ (<<"i", "s", "D", "e", "l", "e", "t", "e", "d">> :> isDeleted)
  IN  Obj([k \in {f \in DOMAIN all : all[f] # Undefined} |-> all[k]])

\* the configuration of the tests, with its optional fields present (a
\* string, an array of strings) or left out
DiffConfigs ==
  {[idField |-> <<"i", "d">>, nameField |-> K_name,
    isDeletedField |-> isDeletedField, ignoreFields |-> ignoreFields] :
     isDeletedField \in {Undefined, Str(<<"i", "s", "D", "e", "l", "e", "t", "e", "d">>)},
     ignoreFields \in {Undefined, Arr(<<Str(<<"v", "a", "l", "u", "e">>)>>),
                       Arr(<<Str(<<"i", "d">>)>>)}}

ExistingPool ==
  {TestItem(Str(<<"1">>), Str(<<"A">>), Num(10), Undefined),
   TestItem(Str(<<"1">>), Str(<<"A">>), Num(10), Bool(TRUE)),
   TestItem(Str(<<"2">>), Str(<<"B">>), Obj(<<"i", "d">> :> Str(<<"1">>)), Bool(FALSE)),
   TestItem(Str(<<" ", "2">>), Str(<<"B">>), Num(20), Bool(TRUE))}

IncomingPool ==
  {TestItem(Str(<<"1">>), Str(<<"A">>), Num(10), Undefined),
   TestItem(Str(<<"1">>), Str(<<"A">>), Num(20), Undefined),
   TestItem(Num(1), Str(<<"A">>), Num(10), Bool(TRUE)),
   TestItem(Str(<<"2">>), Str(<<"B">>), Obj(<<"i", "d">> :> Str(<<"2">>)), Bool(FALSE)),
   TestItem(Str(<<" ", "2">>), Str(<<"B">>), Num(20), Bool(TRUE)),
   TestItem(Undefined, Str(<<"C">>), Num(10), Bool(FALSE)),
   TestItem(Str(<<"4">>), Str(<<>>), Num(10), Undefined),
   TestItem(Str(<<"4">>), Undefined, Num(10), Undefined)}

\* a Map or an object of at most MaxItems incoming items, under keys in
\* insertion order
NewItemsInputs ==
  {[isMap |-> isMap,
    entries |-> [k \in DOMAIN items |-> [key |-> keys[k], item |-> items[k]]]] :
     isMap \in BOOLEAN, items \in SeqsUpTo(IncomingPool, MaxItems),
     keys \in {<<<<"k">>, <<"3">>, <<"1">>, <<"7">>>>,
               <<<<"a">>, <<"b">>, <<"c">>, <<"d">>>>}}

\* the existing items: at most MaxItems of them, no two of one name
DiffInit ==
  /\ heap \in {items \in SeqsUpTo(ExistingPool, MaxItems) :
                 \A i, j \in DOMAIN items :
                   i # j => GetProp(items[i], K_name) # GetProp(items[j], K_name)}
  /\ op = NoCall
  /\ ret = NoCall
  /\ pre = heap

IdentifyChanges ==
  /\ op = NoCall
  /\ \E newItems \in NewItemsInputs, config \in DiffConfigs :
       /\ op' = [name |-> "identifyChanges", newItems |-> newItems,
                 config |-> config]
       /\ ret' = identifyChanges(newItems, heap, config)
       /\ pre' = heap
       /\ UNCHANGED heap

\* a call of identifyInactive with a set of processed ids of the caller
IdentifyInactive ==
  /\ op = NoCall
  /\ \E processedIds \in SUBSET {<<"1">>, <<"2">>, <<" ", "2">>},
        config \in DiffConfigs,
        options \in {Undefined} \cup
                    {[t |-> "options", throwOnMissing |-> b] :
                       b \in {Undefined, Bool(TRUE), Bool(FALSE)}} :
       /\ op' = [name |-> "identifyInactive", processedIds |-> processedIds,
                 config |-> config, options |-> options]
       /\ ret' = identifyInactive(heap, processedIds, config, options)
       /\ pre' = heap
       /\ UNCHANGED heap

DiffNext ==
  \/ IdentifyChanges
  \/ IdentifyInactive

SpecDiff == DiffInit /\ [][DiffNext]_vars

(***************************************************************************)
(* Properties of identifyChanges                                           *)
(***************************************************************************)
Identified == op.name = "identifyChanges"

\* the incoming record under each key of newItems
Incoming == [k \in DOMAIN op.newItems.entries |-> op.newItems.entries[k].item]

NameOf(item) == GetProp(item, op.config.nameField)

\* the record has a name: a string that is not empty
Named(item) == NameOf(item).t = "string" /\ NameOf(item).v # <<>>

\* the existing records of the name of item
ExistingOf(item) ==
  {pre[k] : k \in {j \in DOMAIN pre : NameOf(pre[j]) = NameOf(item)}}

IgnoredFields ==
  IF op.config.ignoreFields = Undefined THEN {}
  ELSE {op.config.ignoreFields.v[k].v : k \in DOMAIN op.config.ignoreFields.v}

\* value without the ignored fields of the objects in it
RECURSIVE Stripped(_)
Stripped(value) ==
  IF value.t # "object" THEN value
  ELSE Obj([key \in DOMAIN value.v \ IgnoredFields |-> Stripped(value.v[key])])

IsInsert(item) == Named(item) /\ ExistingOf(item) = {}

IsUpdate(item) ==
  /\ Named(item)
  /\ \E old \in ExistingOf(item) : Stripped(old) # Stripped(item)

\* C18: when identifyChanges raises no resurrection error, every incoming
\* record with a truthy name is in exactly one class: in inserts iff no
\* existing record has its name; in updates, as newItem with the existing
\* record of its name as oldItem, iff there is one and the two are not
\* structurally equal once the ignored fields are removed; in neither list
\* iff there is one and they are equal.  No record is in both lists and
\* nothing else is in either list.
C18_Classification ==
  (Identified /\ ret.err = "none")
    => LET inserts == ret.value.inserts
           updates == ret.value.updates
       IN  /\ Len(inserts) = Cardinality({k \in DOMAIN Incoming : IsInsert(Incoming[k])})
           /\ Len(updates) = Cardinality({k \in DOMAIN Incoming : IsUpdate(Incoming[k])})
           /\ \A k \in DOMAIN Incoming :
                /\ IsInsert(Incoming[k]) <=> \E j \in DOMAIN inserts : inserts[j] = Incoming[k]
                /\ IsUpdate(Incoming[k])
                     <=> \E j \in DOMAIN updates : updates[j].newItem = Incoming[k]
           /\ \A j \in DOMAIN updates :
                /\ updates[j].oldItem \in ExistingOf(updates[j].newItem)
                /\ \A i \in DOMAIN inserts : inserts[i] # updates[j].newItem

\* of two incoming records of existing names, one is an update and the
\* other, equal once a field is ignored, is in neither list
C18_Witness ==
  /\ Identified
  /\ ret.err = "none"
  /\ IgnoredFields # {}
  /\ Len(Incoming) = 2
  /\ \A k \in DOMAIN Incoming : Named(Incoming[k]) /\ ExistingOf(Incoming[k]) # {}
  /\ \E k \in DOMAIN Incoming :
       \E old \in ExistingOf(Incoming[k]) : old # Incoming[k]
  /\ Len(ret.value.updates) = 1
  /\ Len(ret.value.inserts) = 0

\* the field of the configuration marks the record as deleted
MarkedDeleted(item) == Truthy(GetProp(item, op.config.isDeletedField.v))

\* an incoming record that is not marked deleted, of the name of an existing
\* record that is
Resurrects(item) ==
  /\ Named(item)
  /\ ~MarkedDeleted(item)
  /\ \E old \in ExistingOf(item) : MarkedDeleted(old)

\* C19: identifyChanges raises InactiveItemError of type ALREADY_DELETED,
\* naming the record, exactly when isDeletedField is configured and some
\* incoming record with a truthy name is not marked deleted while the
\* existing record of its name is; it returns no DiffResult then.  It never
\* raises when isDeletedField is not configured or the incoming record is
\* itself marked deleted.
C19_ResurrectionRaises ==
  Identified
    => IF /\ op.config.isDeletedField # Undefined
          /\ \E k \in DOMAIN Incoming : Resurrects(Incoming[k])
       THEN /\ ret.err = "InactiveItemError"
            /\ ret.errorType = "ALREADY_DELETED"
            /\ ret.value = Undefined
            /\ \E k \in DOMAIN Incoming :
                 /\ Resurrects(Incoming[k])
                 /\ ret.itemName = NameOf(Incoming[k]).v
       ELSE /\ ret.err = "none"
            /\ ret.value # Undefined

\* the error was raised for the second incoming record, after a first one
\* that is marked deleted like the existing record of its name
C19_Witness ==
  /\ Identified
  /\ ret.err = "InactiveItemError"
  /\ op.newItems.isMap
  /\ Len(Incoming) = 2
  /\ MarkedDeleted(Incoming[1])
  /\ \E old \in ExistingOf(Incoming[1]) : MarkedDeleted(old)
  /\ Resurrects(Incoming[2])

\* C20: processedIds is exactly the set of the stringified ids of the
\* incoming records that have a truthy name, whether they are inserts,
\* updates or unchanged.  An incoming record whose name is empty or absent
\* is skipped without an error: it is in neither list and its id is not
\* added.
C20_ProcessedIds ==
  Identified
    => /\ ret.err = "none"
         => /\ ret.value.processedIds
                 = {StringOf(GetProp(Incoming[k], op.config.idField)) :
                      k \in {j \in DOMAIN Incoming : Named(Incoming[j])}}
            /\ \A k \in DOMAIN Incoming :
                 ~Named(Incoming[k])
                   => /\ \A j \in DOMAIN ret.value.inserts :
                           ret.value.inserts[j] # Incoming[k]
                      /\ \A j \in DOMAIN ret.value.updates :
                           ret.value.updates[j].newItem # Incoming[k]
       /\ (\A k \in DOMAIN Incoming : ~Named(Incoming[k]))
            => /\ ret.err = "none"
               /\ ret.value.processedIds = {}

\* a record without a name was skipped, and the id of an unchanged record
\* was recorded
C20_Witness ==
  /\ Identified
  /\ ret.err = "none"
  /\ \E k \in DOMAIN Incoming : ~Named(Incoming[k])
  /\ \E k \in DOMAIN Incoming : Named(Incoming[k])
  /\ ret.value.inserts = <<>>
  /\ ret.value.updates = <<>>
  /\ ret.value.processedIds = {<<"1">>}

(***************************************************************************)
(* Properties of identifyInactive                                          *)
(***************************************************************************)
Inactivated == op.name = "identifyInactive"

\* the stringified id of an existing record, as it is and trimmed
IdOf(item) == StringOf(GetProp(item, op.config.idField))

\* the positions of the existing records whose trimmed id was not processed
Considered == {k \in DOMAIN pre : Trim(IdOf(pre[k])) \notin op.processedIds}

SoftDeleted(item) ==
  /\ op.config.isDeletedField # Undefined
  /\ Truthy(GetProp(item, op.config.isDeletedField.v))

\* the considered records that are not soft-deleted
Vanished == {k \in Considered : ~SoftDeleted(pre[k])}

ThrowSet(b) == op.options # Undefined /\ op.options.throwOnMissing = Bool(b)

\* the call threw the Missing error for the first vanished record
RaisedMissing ==
  /\ ret.err = "InactiveItemError"
  /\ ret.errorType = "MISSING"
  /\ ret.value = Undefined
  /\ \E k \in Vanished :
       /\ \A j \in Vanished : k <= j
       /\ ret.itemName = StringOf(NameOf(pre[k]))

\* the call returned the names of the considered records, in existing order
ReportedAll ==
  /\ ret.err = "none"
  /\ Len(ret.value) = Cardinality(Considered)
  /\ \A k \in Considered :
       ret.value[Cardinality({j \in Considered : j <= k})]
         = [name |-> StringOf(NameOf(pre[k]))]

\* C21: identifyInactive considers exactly the existing records whose
\* stringified, trimmed id is not in processedIds, in existing order: a
\* soft-deleted one is reported as {name} without error; an active one
\* raises InactiveItemError of type MISSING, naming the record, when
\* throwOnMissing is true, and is reported as {name} when it is false.  A
\* record whose id is in processedIds is never reported and never raises.
C21_InactiveReport ==
  Inactivated
    => /\ (Vanished = {} \/ ThrowSet(FALSE)) => ReportedAll
       /\ (Vanished # {} /\ ThrowSet(TRUE)) => RaisedMissing
       /\ RaisedMissing \/ ReportedAll

\* of two existing records one was processed under its trimmed id and the
\* other, active, was reported because throwOnMissing is false
C21_Witness ==
  /\ Inactivated
  /\ ThrowSet(FALSE)
  /\ Len(pre) = 2
  /\ \E k \in DOMAIN pre :
       /\ k \notin Considered
       /\ IdOf(pre[k]) \notin op.processedIds
  /\ Cardinality(Vanished) = 1
  /\ ret.err = "none"
  /\ Len(ret.value) = 1

\* C22: throwOnMissing defaults to true.  For every options value that does
\* not set throwOnMissing to false (options omitted, or an options object
\* that leaves it unset) identifyInactive raises the Missing error for an
\* active existing record whose id is absent from processedIds.
C22_ThrowsByDefault ==
  (Inactivated /\ ~ThrowSet(FALSE) /\ Vanished # {}) => RaisedMissing

(***************************************************************************)
(* Calls of deepEqual on two values, or on one value twice                 *)
(***************************************************************************)
\* the two values behind references 1 and 2
EqualInit ==
  /\ heap \in
       LET K_a == <<"a">>
           K_b == <<"b">>
           K_id == <<"i", "d">>
           values ==
             {Num(1), Str(<<"1">>), Null, NaN, EmptyObj,
              Obj(K_a :> Num(1)), Obj(K_a :> Num(2)), Obj(K_b :> Num(1)),
              Obj((K_a :> Num(1)) @@ (K_b :> Num(2))),
              Obj((K_a :> Num(1)) @@ (K_id :> Str(<<"x">>))),
              Obj((K_a :> Num(1)) @@ (K_id :> Str(<<"y">>))),
              Obj(K_a :> Obj((K_b :> Num(1)) @@ (K_id :> Str(<<"x">>)))),
              Obj(K_a :> Obj((K_b :> Num(1)) @@ (K_id :> Str(<<"y">>)))),
              Obj(K_a :> Obj((K_b :> Num(2)) @@ (K_id :> Str(<<"x">>)))),
              Obj(K_a :> NaN), Obj(K_a :> Undefined), Obj(K_b :> Undefined),
              Obj(K_a :> Arr(<<Num(1), Num(2)>>)), Obj(K_a :> Arr(<<Num(1)>>)),
              Obj(K_a :> Obj(<<"0">> :> Num(1)))}
       IN  {<<x, y>> : x \in values, y \in values}
  /\ op = NoCall
  /\ ret = NoCall
  /\ pre = heap

\* obj1 === obj2 holds at once when both arguments are one reference
DeepEqual ==
  /\ op = NoCall
  /\ \E ref1 \in 1..2, ref2 \in 1..2,
        ignoreFields \in {{}, {<<"i", "d">>}, {<<"b">>}} :
       /\ op' = [name |-> "deepEqual", obj1 |-> ref1, obj2 |-> ref2,
                 ignoreFields |-> ignoreFields]
       /\ ret' = [err |-> "none",
                  value |-> Bool(\/ ref1 = ref2
                                 \/ deepEqual(heap[ref1], heap[ref2], ignoreFields))]
       /\ pre' = heap
       /\ UNCHANGED heap

EqualNext == DeepEqual

SpecEqual == EqualInit /\ [][EqualNext]_vars

(***************************************************************************)
(* Properties of deepEqual                                                 *)
(***************************************************************************)
\* the keys of a container, those of ignore left out
KeptKeys(x, ignore) ==
  (IF x.t = "object" THEN DOMAIN x.v
   ELSE {IntToString(i) : i \in {j \in 0..(Len(x.v) - 1) : x.v[j + 1] # Hole}}
          \cup DOMAIN x.p) \ ignore

\* two values that are not one reference are equal primitives, or containers
\* with the same kept keys and equal values under each
RECURSIVE StructurallyEqual(_, _, _)
StructurallyEqual(a, b, ignore) ==
  IF IsContainer(a) /\ IsContainer(b)
  THEN /\ KeptKeys(a, ignore) = KeptKeys(b, ignore)
       /\ \A key \in KeptKeys(a, ignore) :
            StructurallyEqual(GetProp(a, key), GetProp(b, key), ignore)
  ELSE ~IsContainer(a) /\ ~IsContainer(b) /\ a = b /\ a # NaN

ApplyCreateAt ==
  /\ op = NoCall
  /\ \E arrayPath \in ArrayBases, index \in 0..MaxIndex,
        options \in {Undefined, Options(Bool(FALSE))},
        descriptor \in {createStringDescriptor(<<>>, <<"x">>),
                        createNumberDescriptor(<<>>, Num(7)),
                        createObjectDescriptor(<<>>, Obj(K_name :> Str(<<"y">>)))} :
       Called([name |-> "createAt", arrayPath |-> arrayPath, index |-> index,
               options |-> options, before |-> heap],
              applyChange(heap, 1,
                          wrapChanges(<<[descriptor EXCEPT
                                           !.propertyPath = AtPath(arrayPath, index)]>>),
                          options))

ApplyDeleteAt ==
  /\ op.name = "createAt"
  /\ ret.err = "none"
  /\ Called([op EXCEPT !.name = "deleteAt"],
            applyChange(heap, 1,
                        wrapChanges(<<deleteDescriptor(AtPath(op.arrayPath, op.index))>>),
                        op.options))

RoundTripNext ==
  \/ ApplyCreateAt
  \/ ApplyDeleteAt

SpecRoundTrip == ManipInit /\ [][RoundTripNext]_vars

\* the array at the array path before the two changes
ArrayBefore == getPropertyValue(op.before[1], op.arrayPath, Undefined)

\* C24: for an existing array of length n and an index i with 0 <= i <= n,
\* a CREATE at path arr@i followed by a DELETE at the same path leaves the
\* array, and the whole object, equal to what it was before the two changes.
C24_InsertDeleteRoundTrip ==
  (/\ op.name = "deleteAt"
   /\ ArrayBefore.t = "array"
   /\ op.index <= Len(ArrayBefore.v))
    => /\ ret.err = "none"
       /\ heap = op.before

\* the element inserted in the middle of the array was removed again
C24_Witness ==
  /\ op.name = "deleteAt"
  /\ ArrayBefore.t = "array"
  /\ op.index > 0
  /\ op.index < Len(ArrayBefore.v)
  /\ pre # op.before
  /\ heap = op.before

(***************************************************************************)
(* Properties of the split of an '@' path                                  *)
(***************************************************************************)
\* the position of the last '@' of the path of the tested descriptor
LastAt ==
  CHOOSE i \in 1..Len(Tested.propertyPath) :
    /\ Tested.propertyPath[i] = "@"
    /\ \A j \in (i + 1)..Len(Tested.propertyPath) : Tested.propertyPath[j] # "@"

\* C25: an array-mutation path is split on its last '@': for insertAtIndex,
\* setValueAtIndex and removeAtIndex, and for applyChange with validatePaths
\* false, what is before the last '@' is the array path and the digits after
\* it are the index, also when the path holds more than one '@'.
C25_SplitOnLastAt ==
  (Dispatched /\ isArrayChange(Tested.propertyPath))
    => LET arrayPath == SubSeq(Tested.propertyPath, 1, LastAt - 1)
       IN  IF isArrayChange(arrayPath)
           THEN \* no property of the objects is named with an '@'
                /\ getPropertyValue(BeforeTested, arrayPath, Undefined) = Undefined
                /\ ret.err = "none"
                /\ heap[1] = BeforeTested
           ELSE /\ ret.err = DispatchTable.err
                /\ heap[1] = DispatchTable.obj

(***************************************************************************)
(* The two passes of a reconciliation: identifyChanges on the existing     *)
(* items and a Map of incoming items, then identifyInactive on the same    *)
(* existing items with the processedIds that the first pass returned.      *)
(***************************************************************************)
\* items of three ids under the name A, and of an id with a leading space
\* and the same id without it under the name B
ReconcilePool ==
  {TestItem(Str(<<"1">>), Str(<<"A">>), Num(10), Undefined),
   TestItem(Str(<<"1">>), Str(<<"A">>), Num(20), Bool(FALSE)),
   TestItem(Str(<<"9">>), Str(<<"A">>), Num(10), Undefined),
   TestItem(Str(<<" ", "2">>), Str(<<"B">>), Num(10), Undefined),
   TestItem(Str(<<"2">>), Str(<<"B">>), Num(10), Bool(TRUE)),
   TestItem(Str(<<"1">>), Str(<<>>), Num(10), Undefined)}

ReconcileInit ==
  /\ heap \in {items \in SeqsUpTo(ReconcilePool, MaxItems) :
                 \A i, j \in DOMAIN items :
                   /\ Truthy(GetProp(items[i], K_name))
                   /\ i # j => GetProp(items[i], K_name) # GetProp(items[j], K_name)}
  /\ op = NoCall
  /\ ret = NoCall
  /\ pre = heap

ReconcileChanges ==
  /\ op = NoCall
  /\ \E items \in SeqsUpTo(ReconcilePool, MaxItems), config \in DiffConfigs :
       LET newItems ==
             [isMap |-> TRUE,
              entries |-> [k \in DOMAIN items |->
                             [key |-> IntToString(k), item |-> items[k]]]]
       IN  /\ op' = [name |-> "identifyChanges", newItems |-> newItems,
                     config |-> config]
           /\ ret' = identifyChanges(newItems, heap, config)
           /\ pre' = heap
           /\ UNCHANGED heap

ReconcileInactive ==
  /\ op.name = "identifyChanges"
  /\ ret.err = "none"
  /\ \E options \in {Undefined, [t |-> "options", throwOnMissing |-> Bool(FALSE)]} :
       /\ op' = [name |-> "reconcile", newItems |-> op.newItems,
                 config |-> op.config, processedIds |-> ret.value.processedIds,
                 options |-> options]
       /\ ret' = identifyInactive(heap, ret.value.processedIds, op.config, options)
       /\ pre' = heap
       /\ UNCHANGED heap

ReconcileNext ==
  \/ ReconcileChanges
  \/ ReconcileInactive

SpecReconcile == ReconcileInit /\ [][ReconcileNext]_vars

(***************************************************************************)
(* Properties of the two passes together                                   *)
(***************************************************************************)
\* the second pass reported the existing record as inactive, or raised the
\* Missing error for it
LostInSecondPass(item) ==
  IF ret.err = "none"
  THEN \E j \in DOMAIN ret.value : ret.value[j].name = StringOf(NameOf(item))
  ELSE ret.itemName = StringOf(NameOf(item))

\* C27: the two passes agree on ids.  When identifyInactive is given the
\* processedIds that identifyChanges returned for the same existing list and
\* config, no existing record whose stringified id is the stringified id of
\* an incoming record with a truthy name is reported inactive or raises the
\* Missing error, whatever the id, leading or trailing whitespace included.
C27_PassesAgreeOnIds ==
  op.name = "reconcile"
    => \A k \in DOMAIN pre :
         (\E i \in DOMAIN Incoming :
            /\ Named(Incoming[i])
            /\ IdOf(Incoming[i]) = IdOf(pre[k]))
           => ~LostInSecondPass(pre[k])

\* C28: a record matched in the first pass is not lost in the second.  No
\* existing record that identifyChanges matched by name to an incoming
\* record, as an update or as unchanged, is reported inactive or raises the
\* Missing error, also when the incoming record carries another id.
C28_MatchedNotLost ==
  op.name = "reconcile"
    => \A k \in DOMAIN pre :
         (\E i \in DOMAIN Incoming :
            /\ Named(Incoming[i])
            /\ NameOf(Incoming[i]) = NameOf(pre[k]))
           => ~LostInSecondPass(pre[k])
====
